---- MODULE Spec2Model ----
(***************************************************************************)
(* A model of the computational slice of the fund-tracking application:    *)
(* the in-memory TTL cache (api/cache.ts), the period-return calculators   *)
(* (api/fundFast.ts calculatePeriodReturns, api/fund.ts                    *)
(* calculateFromHistory), the trailing-fee arithmetic, the concurrency     *)
(* limiter, the JSONP estimate fetchers with their pending queues and the  *)
(* persisted fallback store.                                               *)
(*                                                                         *)
(* Units.  Instants and durations are counted in units of 100 ms (the      *)
(* greatest unit that divides every timeout and TTL of the code), so that  *)
(* a year of history fits TLC's integers.  Net values are counted in       *)
(* thousandths (1.020 is 1020) and percentages in hundredths (2.00 % is    *)
(* 200).  Binary floating-point error is not modelled: arithmetic is exact *)
(* and toFixed / Math.round are the exact roundings.                       *)
(*                                                                         *)
(* Each subsystem has its own specification: SpecCache, SpecPeriod,        *)
(* SpecFee, SpecLimiter, Spec (the estimate requests of both modules),     *)
(* SpecFair (the same under fair timers) and SpecStore (the two cache      *)
(* tiers under the estimate fetcher, the wrapper and the market overview). *)
(* A specification leaves the variables of the other subsystems at their   *)
(* initial values.                                                         *)
(***************************************************************************)
EXTENDS Integers, Sequences, FiniteSets, TLC

(***************************************************************************)
(* Program constants (durations in units of 100 ms).                       *)
(***************************************************************************)
DayUnits == 864000
TTL_ESTIMATE == 8
TTL_NET_VALUE == 600
TTL_MARKET_INDEX == 30
HISTORY_DAYS == 400
HISTORY_PAGE == 365
MAX_CONCURRENT == 5
FAST_TIMEOUT == 80
SLOW_TIMEOUT == 100

(***************************************************************************)
(* Bounds of the model.                                                    *)
(***************************************************************************)
MaxHist == 3
MaxTicks == 2
Today == 400
NumTasks == 6
NumReqs == 2

Null == "null"

VARIABLES
    now,              \* Date.now(), in units of 100 ms
    ticks,            \* number of clock advances so far (bounds the clock)
    wall,             \* the wall clock's day of week, hour and minute
    isNativeApp,      \* window.Capacitor.isNativePlatform()
    cache,            \* CacheManager.cache: key -> CacheItem
    persist,          \* localStorage under the fund_ prefix: key -> value
    setLog,           \* per key, the last direct set not followed by a delete or clear
    getOut,           \* the last direct CacheManager.get and what it returned
    trend,            \* upstream net-worth trend of the fund, oldest first
    periodOut,        \* the last period-return call and what it returned
    feeIn,            \* the arguments of calculateDailyServiceFee
    feeOut,           \* what the calls of calculateDailyServiceFee returned
    activeRequests,   \* fundFast.ts activeRequests
    requestQueue,     \* fundFast.ts requestQueue (ids of the queued calls)
    req,              \* per call: what was asked, its promise, timer and script
    pendingFast,      \* fundFast.ts pendingRequests (ids of the calls), in order
    pendingSlow,      \* fund.ts pendingRequests (ids of the calls), in order
    jsonpgz,          \* which module's handler window.jsonpgz holds
    jsonpInitialized, \* fundFast.ts jsonpInitialized
    rankData,         \* window.rankData, set by the rank scripts
    holdings,         \* holding store: holdings.value, the holdings in memory
    fundHoldings,     \* localStorage item fund_holdings: the persisted records
    refreshes,        \* refreshEstimates calls awaiting their estimates
    applied,          \* per code, the estimate last applied to the holding in memory
    chartData,        \* OKXChart: chartData.value, the history, oldest first
    activePeriod,     \* OKXChart: activePeriod.value
    chartProps,       \* OKXChart: props realtimeValue, realtimeChange, lastClose
    chartDrawn,       \* what the last drawChart read from filteredData, and whether it drew
    tradingOut,       \* the last call of isTradingTime: the wall clock and the result
    detailTick,       \* the last polling tick of the detail view and what it did
    transactions,     \* Transactions.vue: transactions.value
    fundTransactions, \* localStorage item fund_transactions
    loads,            \* number of loadTransactions calls so far
    seedings,         \* number of those calls that inserted records built from holdings
    shownAnnouncements, \* localStorage item fund_app_shown_announcements
    markedIds,        \* the ids marked as shown since the record was last cleared
    activeOut,        \* the last call of getActiveAnnouncements and its result
    watchlist,        \* localStorage item of the watchlist
    watchOp,          \* the last watchlist operation and the list it found
    detail,           \* Detail.vue: mounted, route code, fundInfo, refreshTimer
    intervals,        \* the intervals set and not cleared
    inflight,         \* the requests of the detail page and its chart still awaited
    chartShown,       \* OKXChart.vue: the fund whose history chartData holds
    pollsAfterUnmount \* an interval callback has run after onUnmounted

envVars == <<wall, isNativeApp>>
clockVars == <<now, ticks, wall, isNativeApp>>
storeVars == <<cache, persist>>
cacheOpVars == <<setLog, getOut>>
periodVars == <<trend, periodOut>>
feeVars == <<feeIn, feeOut>>
limiterVars == <<activeRequests, requestQueue>>
jsonpVars == <<pendingFast, pendingSlow, jsonpgz, jsonpInitialized, rankData>>
holdingVars == <<holdings, fundHoldings, refreshes, applied>>
chartVars == <<chartData, activePeriod, chartProps, chartDrawn>>
txVars == <<transactions, fundTransactions, loads, seedings>>
annVars == <<shownAnnouncements, markedIds, activeOut>>
watchVars == <<watchlist, watchOp>>
lifeVars == <<detail, intervals, inflight, chartShown, pollsAfterUnmount>>
pageVars == <<annVars, watchVars, lifeVars>>
viewVars == <<holdingVars, chartVars, tradingOut, detailTick, txVars, pageVars>>
vars == <<now, ticks, wall, isNativeApp, cache, persist, setLog, getOut, trend,
          periodOut, feeIn, feeOut, activeRequests, requestQueue, req, pendingFast,
          pendingSlow, jsonpgz, jsonpInitialized, rankData, holdings, fundHoldings,
          refreshes, applied, chartData, activePeriod, chartProps, chartDrawn,
          tradingOut, detailTick, transactions, fundTransactions, loads, seedings,
          shownAnnouncements, markedIds, activeOut, watchlist, watchOp,
          detail, intervals, inflight, chartShown, pollsAfterUnmount>>

(***************************************************************************)
(* Small helpers.                                                          *)
(***************************************************************************)
Abs(x) == IF x < 0 THEN -x ELSE x

Reverse(s) == [i \in 1..Len(s) |-> s[Len(s) + 1 - i]]

\* Array.prototype.slice(-n): the last n elements
SliceLast(s, n) == IF Len(s) <= n THEN s ELSE SubSeq(s, Len(s) - n + 1, Len(s))

\* Array.prototype.slice(0, n): the first n elements
SliceFirst(s, n) == IF Len(s) <= n THEN s ELSE SubSeq(s, 1, n)

\* n / d rounded to the nearest integer, a tie going away from zero
\* (Number.prototype.toFixed on the magnitude, the sign put back)
RoundDiv(n, d) ==
    IF n >= 0 THEN (2 * n + d) \div (2 * d)
    ELSE -((2 * (-n) + d) \div (2 * d))

\* the sequence s without its element at index i (Array.prototype.splice(i, 1))
RemoveAt(s, i) == [k \in 1..(Len(s) - 1) |-> IF k < i THEN s[k] ELSE s[k + 1]]

\* what a lookup returns: a value, or nothing (null)
Miss == [has |-> FALSE, data |-> Null]
Hit(data) == [has |-> TRUE, data |-> data]

(***************************************************************************)
(* Values every specification starts from.                                 *)
(***************************************************************************)
Codes == {"c1", "c2"}
Ids == 1..NumTasks

CacheKeys == {"period_c1", "netvalue_c1_400", "estimate_c1", "estimate_c2",
              "market_overview_v2", "otc_rank_desc_10", "k1", "k2"}
PersistKeys == {"estimate_c1", "estimate_c2", "market_overview_v2", "k1"}

NoItem == [has |-> FALSE, data |-> Null, timestamp |-> 0, ttl |-> 0]
EmptyCache == [k \in CacheKeys |-> NoItem]
EmptyStore == [k \in PersistKeys |-> Miss]

NoSet == [has |-> FALSE, data |-> Null, at |-> 0, ttl |-> 0]
NoGet == [key |-> Null, at |-> 0, res |-> Miss, last |-> NoSet]
CacheOpsIdle == setLog = [k \in CacheKeys |-> NoSet] /\ getOut = NoGet

NoCall == [fn |-> "none", fromCache |-> FALSE, hist |-> << >>, at |-> 0,
           result |-> << >>]
PeriodIdle == trend = << >> /\ periodOut = NoCall

FeeIdle == feeIn = <<0, 0, 0>> /\ feeOut = << >>

\* a promise not yet settled; the estimate a call never received
NoEstimate == [fundcode |-> "-", gsz |-> 0]
Pending == [kind |-> "pending", data |-> NoEstimate]
Resolved(data) == [kind |-> "resolved", data |-> data]
Rejected == [kind |-> "rejected", data |-> NoEstimate]

\* window.rankData when it is not defined, or holds no rows
NoRank == [has |-> FALSE, ups |-> 0, downs |-> 0]

IdleReq == [fn |-> "none", code |-> "-", val |-> "-", phase |-> "idle",
            out |-> Pending, persisted |-> Miss, timer |-> "none", deadline |-> 0,
            script |-> "none", got |-> NoEstimate, delay |-> "none", procAt |-> 0,
            resolves |-> 0]

LimiterIdle == activeRequests = 0 /\ requestQueue = << >>
ReqsIdle == req = [r \in Ids |-> IdleReq]
JsonpIdle ==
    /\ pendingFast = << >>
    /\ pendingSlow = << >>
    /\ jsonpgz = "unset"
    /\ jsonpInitialized = FALSE
    /\ rankData = NoRank

Monday1000 == [day |-> 1, hour |-> 10, minute |-> 0]
EnvIdle == wall = Monday1000 /\ isNativeApp = FALSE

\* no estimate has been applied to the holding of a code
NoEstimateApplied == [has |-> FALSE, gsz |-> 0, dwjz |-> 0]
HoldingsIdle ==
    /\ holdings = << >>
    /\ fundHoldings = << >>
    /\ refreshes = << >>
    /\ applied = [c \in Codes |-> NoEstimateApplied]
\* drawChart has not run
NotDrawn == [called |-> FALSE, data |-> << >>, painted |-> FALSE]
ChartIdle ==
    /\ chartData = << >>
    /\ activePeriod = "5d"
    /\ chartProps = [realtimeValue |-> 0, realtimeChange |-> 0, lastClose |-> 0]
    /\ chartDrawn = NotDrawn
\* isTradingTime has not been called
NotAsked == [called |-> FALSE, wall |-> Monday1000, result |-> FALSE]
\* the polling timer of the detail view has not fired
NoTick == [fired |-> FALSE, wall |-> Monday1000, refreshed |-> FALSE, call |-> 0]
TransactionsIdle ==
    /\ transactions = << >>
    /\ fundTransactions = Miss
    /\ loads = 0
    /\ seedings = 0
\* getActiveAnnouncements not yet called, nothing marked as shown
NoActive == [called |-> FALSE, at |-> 0, marked |-> {}, result |-> << >>]
AnnouncementsIdle ==
    /\ shownAnnouncements = Miss
    /\ markedIds = {}
    /\ activeOut = NoActive

\* no watchlist operation yet, nothing stored
NoWatchOp == [op |-> "none", code |-> "-", before |-> << >>]
WatchlistIdle == watchlist = Miss /\ watchOp = NoWatchOp

\* the detail page before it is mounted; refreshTimer 0 is null
NoDetail == [mounted |-> "no", fundCode |-> "c1", fundInfo |-> Miss, refreshTimer |-> 0]
NoChart == [has |-> FALSE, code |-> "-"]
LifeIdle ==
    /\ detail = NoDetail
    /\ intervals = {}
    /\ inflight = << >>
    /\ chartShown = NoChart
    /\ pollsAfterUnmount = FALSE

PagesIdle == AnnouncementsIdle /\ WatchlistIdle /\ LifeIdle

ViewsIdle ==
    /\ HoldingsIdle /\ ChartIdle /\ tradingOut = NotAsked /\ detailTick = NoTick
    /\ TransactionsIdle /\ PagesIdle

\* time passes
Tick(d) ==
    /\ ticks < MaxTicks
    /\ now' = now + d
    /\ ticks' = ticks + 1

(***************************************************************************)
(* CacheManager (api/cache.ts).                                            *)
(***************************************************************************)
CacheItem(data, ttl) == [has |-> TRUE, data |-> data, timestamp |-> now, ttl |-> ttl]

\* the expiry test of get: Date.now() - item.timestamp > item.ttl
Expired(item) == now - item.timestamp > item.ttl

\* the value CacheManager.get returns from the map c
CacheGet(c, key) ==
    IF ~c[key].has THEN Miss
    ELSE IF Expired(c[key]) THEN Miss
    ELSE Hit(c[key].data)

\* the map after CacheManager.get: an expired entry is deleted
CacheAfterGet(c, key) ==
    IF c[key].has /\ Expired(c[key]) THEN [c EXCEPT ![key] = NoItem] ELSE c

\* a variant that keeps a single entry: a set evicts every other key
CacheAfterSetEvicting(c, key, data, ttl) ==
    [k \in DOMAIN c |-> IF k = key THEN CacheItem(data, ttl) ELSE NoItem]

\* the map after CacheManager.set
CacheAfterSet(c, key, data, ttl) == [c EXCEPT ![key] = CacheItem(data, ttl)]

\* the map after CacheManager.delete and CacheManager.clear
CacheAfterDelete(c, key) == [c EXCEPT ![key] = NoItem]
CacheAfterClear(c) == [k \in DOMAIN c |-> NoItem]

(***************************************************************************)
(* Direct use of the CacheManager: set, get, has, delete, clear.  setLog   *)
(* records, beside the map, what was last set for each key.                *)
(***************************************************************************)
CacheSetOp(key, data, ttl) ==
    /\ cache' = CacheAfterSet(cache, key, data, ttl)
    /\ setLog' = [setLog EXCEPT ![key] = [has |-> TRUE, data |-> data, at |-> now, ttl |-> ttl]]
    /\ UNCHANGED getOut

CacheGetOp(key) ==
    /\ getOut' = [key |-> key, at |-> now, res |-> CacheGet(cache, key), last |-> setLog[key]]
    /\ cache' = CacheAfterGet(cache, key)
    /\ UNCHANGED setLog

\* has(key) is get(key) !== null: it deletes an expired entry as get does
CacheHasOp(key) ==
    /\ cache' = CacheAfterGet(cache, key)
    /\ UNCHANGED <<setLog, getOut>>

CacheDeleteOp(key) ==
    /\ cache' = CacheAfterDelete(cache, key)
    /\ setLog' = [setLog EXCEPT ![key] = NoSet]
    /\ UNCHANGED getOut

CacheClearOp ==
    /\ cache' = CacheAfterClear(cache)
    /\ setLog' = [k \in CacheKeys |-> NoSet]
    /\ UNCHANGED getOut

(***************************************************************************)
(* Specification of the CacheManager used directly.                        *)
(***************************************************************************)
UserKeys == {"k1", "k2"}
UserValues == {"v1", "v2"}
UserTtls == {TTL_ESTIMATE, TTL_MARKET_INDEX}
CacheSteps == {4, 9}

\* what the direct cache operations leave alone
cacheFrame == <<persist, periodVars, feeVars, limiterVars, req, jsonpVars, viewVars>>
cacheOpFrame == <<clockVars, cacheFrame>>

InitCache ==
    /\ now = 0
    /\ ticks = 0
    /\ EnvIdle
    /\ cache = EmptyCache
    /\ persist = EmptyStore
    /\ CacheOpsIdle
    /\ PeriodIdle /\ FeeIdle /\ LimiterIdle /\ ReqsIdle /\ JsonpIdle /\ ViewsIdle

DoSet == \E k \in UserKeys, v \in UserValues, t \in UserTtls :
            CacheSetOp(k, v, t) /\ UNCHANGED cacheOpFrame
DoGet == \E k \in UserKeys : CacheGetOp(k) /\ UNCHANGED cacheOpFrame
DoHas == \E k \in UserKeys : CacheHasOp(k) /\ UNCHANGED cacheOpFrame
DoDelete == \E k \in UserKeys : CacheDeleteOp(k) /\ UNCHANGED cacheOpFrame
DoClear == CacheClearOp /\ UNCHANGED cacheOpFrame
TickCache ==
    \E d \in CacheSteps : Tick(d) /\ UNCHANGED <<envVars, cache, cacheOpVars>> /\ UNCHANGED cacheFrame

NextCache == DoSet \/ DoGet \/ DoHas \/ DoDelete \/ DoClear \/ TickCache

SpecCache == InitCache /\ [][NextCache]_vars

\* C3: after set(key, v, ttl) with no later set, delete or clear of the key,
\* get(key) returns v at every time before ttl has elapsed and null at every
\* time after it has elapsed, whatever was set for other keys in between.
C3_GetWithinTtl ==
    (getOut.key # Null /\ getOut.last.has) =>
        /\ getOut.at - getOut.last.at < getOut.last.ttl =>
               (getOut.res.has /\ getOut.res.data = getOut.last.data)
        /\ getOut.at - getOut.last.at > getOut.last.ttl => ~getOut.res.has

\* a get that returned the value before the TTL had elapsed although the other
\* key was set in between, and a get that found the entry expired
C3_Witness ==
    /\ getOut.key = "k1" /\ getOut.last.has /\ getOut.res.has
    /\ getOut.at > getOut.last.at
    /\ setLog["k2"].has /\ setLog["k2"].at > getOut.last.at /\ setLog["k2"].at <= getOut.at

C3_WitnessExpired ==
    /\ getOut.key = "k1" /\ getOut.last.has /\ ~getOut.res.has
    /\ getOut.at - getOut.last.at > getOut.last.ttl
    /\ setLog["k2"].has

(***************************************************************************)
(* Period returns.                                                         *)
(***************************************************************************)
Periods == <<
    [period |-> "Z", days |-> 7],
    [period |-> "Y", days |-> 30],
    [period |-> "3Y", days |-> 90],
    [period |-> "6Y", days |-> 180],
    [period |-> "1N", days |-> 365] >>

\* new Date("YYYY-MM-DD"): the instant of that day's midnight (UTC)
DateInstant(day) == day * DayUnits

\* fetchNetValueHistoryFast's conversion of the trend: the last `days` items,
\* netValue = item.y || 0, newest first
TrendToRecords(t, days) ==
    Reverse([i \in 1..Len(SliceLast(t, days)) |->
        [date |-> SliceLast(t, days)[i].day, netValue |-> SliceLast(t, days)[i].y]])

\* fetchNetValueHistory's conversion of LSJZList (newest first, one page)
LsjzToRecords(t, pageSize) == SliceFirst(TrendToRecords(t, Len(t)), pageSize)

\* the loop `for (const record of history) if (recordDate <= targetDate) ...`,
\* also Array.prototype.find: the index of the first record at or before
\* target, 0 when there is none
RECURSIVE FindFrom(_, _, _)
FindFrom(history, target, i) ==
    IF i > Len(history) THEN 0
    ELSE IF DateInstant(history[i].date) <= target THEN i
    ELSE FindFrom(history, target, i + 1)

\* a variant that takes the oldest record at or before target instead of the
\* first one met
RECURSIVE FindBack(_, _, _)
FindBack(history, target, i) ==
    IF i < 1 THEN 0
    ELSE IF DateInstant(history[i].date) <= target THEN i
    ELSE FindBack(history, target, i - 1)

FindOldestRecord(history, target) == FindBack(history, target, Len(history))

FindRecord(history, target) == FindFrom(history, target, 1)

\* parseFloat(((latest - found) / found * 100).toFixed(2)), in hundredths
ChangeOf(latest, found) == RoundDiv((latest - found) * 10000, found)

\* a variant that zero-fills a window without a record instead of omitting it
ZeroFilledEntry(history, at, p) ==
    IF FindRecord(history, at - p.days * DayUnits) = 0
    THEN << [period |-> p.period, days |-> p.days, change |-> 0] >>
    ELSE LET found == history[FindRecord(history, at - p.days * DayUnits)]
         IN  IF found.netValue > 0
             THEN << [period |-> p.period, days |-> p.days,
                      change |-> ChangeOf(history[1].netValue, found.netValue)] >>
             ELSE << >>

\* calculatePeriodReturns, the body of the loop for one period: the entries it
\* pushes
PeriodEntry(history, at, p) ==
    LET idx == FindRecord(history, at - p.days * DayUnits)
    IN  IF idx # 0 /\ history[idx].netValue > 0
        THEN << [period |-> p.period, days |-> p.days,
                 change |-> ChangeOf(history[1].netValue, history[idx].netValue)] >>
        ELSE << >>

RECURSIVE PeriodEntries(_, _, _)
PeriodEntries(history, at, k) ==
    IF k > Len(Periods) THEN << >>
    ELSE PeriodEntry(history, at, Periods[k]) \o PeriodEntries(history, at, k + 1)

\* calculatePeriodReturns after the history has been fetched
ComputePeriodReturns(history, at) ==
    IF Len(history) < 2 THEN << >>
    ELSE IF history[1].netValue <= 0 THEN << >>
    ELSE PeriodEntries(history, at, 1)

\* calculateFromHistory: the change it reports; a division by zero gives
\* Infinity or NaN, which parseFloat(toFixed) keeps
HistoryChange(latest, start) ==
    IF start # 0 THEN RoundDiv((latest - start) * 10000, start)
    ELSE IF latest > 0 THEN "Infinity" ELSE "NaN"

HistoryEntry(history, at, p) ==
    LET idx == FindRecord(history, at - p.days * DayUnits)
    IN  IF idx # 0
        THEN << [period |-> p.period, days |-> p.days,
                 change |-> HistoryChange(history[1].netValue, history[idx].netValue)] >>
        ELSE << >>

RECURSIVE HistoryEntries(_, _, _)
HistoryEntries(history, at, k) ==
    IF k > Len(Periods) THEN << >>
    ELSE HistoryEntry(history, at, Periods[k]) \o HistoryEntries(history, at, k + 1)

ComputeFromHistory(history, at) ==
    IF Len(history) < 2 THEN << >> ELSE HistoryEntries(history, at, 1)

(***************************************************************************)
(* The period-return calls as operations.                                  *)
(***************************************************************************)
\* the guards after which calculatePeriodReturns computes (and caches) a result
Computable(history) == Len(history) >= 2 /\ history[1].netValue > 0

\* fetchNetValueHistoryFast(code, 400): the history it resolves with and the
\* cache it leaves, for a script that loads ("load") or fails or times out
\* ("fail")
HistoryFast(c, outcome) ==
    LET key == "netvalue_c1_400"
        hit == CacheGet(c, key)
        c1  == CacheAfterGet(c, key)
    IN  IF hit.has THEN [history |-> hit.data, cache |-> c1]
        ELSE IF outcome = "load" /\ Len(trend) > 0
        THEN [history |-> TrendToRecords(trend, HISTORY_DAYS),
              cache |-> CacheAfterSet(c1, key, TrendToRecords(trend, HISTORY_DAYS),
                                      TTL_NET_VALUE)]
        ELSE [history |-> << >>, cache |-> c1]

\* calculatePeriodReturns(code)
CalculatePeriodReturns(outcome) ==
    LET key == "period_c1"
        cached == CacheGet(cache, key)
        c1 == CacheAfterGet(cache, key)
        h == HistoryFast(c1, outcome)
        results == ComputePeriodReturns(h.history, now)
    IN  /\ IF cached.has
           THEN /\ periodOut' = [fn |-> "calculatePeriodReturns", fromCache |-> TRUE,
                                 hist |-> << >>, at |-> now, result |-> cached.data]
                /\ cache' = c1
           ELSE /\ periodOut' = [fn |-> "calculatePeriodReturns", fromCache |-> FALSE,
                                 hist |-> h.history, at |-> now, result |-> results]
                /\ cache' = IF Computable(h.history)
                            THEN CacheAfterSet(h.cache, key, results, TTL_NET_VALUE)
                            ELSE h.cache
        /\ UNCHANGED trend

\* calculateFromHistory(code): fetchNetValueHistory(code, 365) resolves with the
\* page ("load"), with [] for a response without a list ("nodata"), or rejects
\* on error or timeout ("fail"), which the catch turns into []
CalculateFromHistory(outcome) ==
    LET history == IF outcome = "load" THEN LsjzToRecords(trend, HISTORY_PAGE)
                   ELSE << >>
        results == IF outcome = "fail" THEN << >>
                   ELSE ComputeFromHistory(history, now)
    IN  /\ periodOut' = [fn |-> "calculateFromHistory", fromCache |-> FALSE,
                         hist |-> history, at |-> now, result |-> results]
        /\ UNCHANGED <<cache, trend>>

(***************************************************************************)
(* Specification of the period-return calculators: any history of at most  *)
(* MaxHist records, oldest first, evaluated at instants around Today.      *)
(***************************************************************************)
TrendDays == {Today - 365, Today - 30, Today - 7, Today}
TrendValues == {0, 1000, 1020}
TrendItems == [day : TrendDays, y : TrendValues]

Ascending(t) == \A i \in 1..(Len(t) - 1) : t[i].day < t[i + 1].day

Trends == {t \in UNION {[1..n -> TrendItems] : n \in 0..MaxHist} : Ascending(t)}

StartInstants == {Today * DayUnits - TTL_NET_VALUE, Today * DayUnits + DayUnits \div 2}

PeriodSteps == {TTL_NET_VALUE, DayUnits}

\* what the period-return calls leave alone
periodFrame == <<persist, cacheOpVars, feeVars, limiterVars, req, jsonpVars, viewVars>>

InitPeriod ==
    /\ now \in StartInstants
    /\ ticks = 0
    /\ EnvIdle
    /\ cache = EmptyCache
    /\ persist = EmptyStore
    /\ CacheOpsIdle /\ FeeIdle /\ LimiterIdle /\ ReqsIdle /\ JsonpIdle /\ ViewsIdle
    /\ trend \in Trends
    /\ periodOut = NoCall

TickPeriod ==
    \E d \in PeriodSteps : Tick(d) /\ UNCHANGED <<envVars, cache, periodVars>> /\ UNCHANGED periodFrame

CallPeriodReturns ==
    \E o \in {"load", "fail"} :
        CalculatePeriodReturns(o) /\ UNCHANGED clockVars /\ UNCHANGED periodFrame

CallFromHistory ==
    \E o \in {"load", "nodata", "fail"} :
        CalculateFromHistory(o) /\ UNCHANGED clockVars /\ UNCHANGED periodFrame

NextPeriod == CallPeriodReturns \/ CallFromHistory \/ TickPeriod

SpecPeriod == InitPeriod /\ [][NextPeriod]_vars

(***************************************************************************)
(* Claims about the period-return calculators.                             *)
(***************************************************************************)
Windows == {Periods[k].days : k \in 1..Len(Periods)}

\* the history holds a record dated at or before (at - w days)
Qualifying(history, at, w) ==
    {i \in 1..Len(history) : DateInstant(history[i].date) <= at - w * DayUnits}

\* the nearest record at or before (at - w days): the latest-dated one
Nearest(history, at, w) ==
    CHOOSE i \in Qualifying(history, at, w) :
        \A j \in Qualifying(history, at, w) : history[j].date <= history[i].date

\* the newest record of a history
Newest(history) ==
    CHOOSE i \in 1..Len(history) : \A j \in 1..Len(history) : history[j].date <= history[i].date

EntriesFor(result, w) == {j \in 1..Len(result) : result[j].days = w}

\* c (hundredths of a percent) is (latest - found) / found * 100 rounded to 2 decimals
RoundedChange(c, latest, found) ==
    /\ found > 0
    /\ 2 * Abs(c * found - (latest - found) * 10000) <= found

\* the whole history of the fund as the endpoints deliver it, newest first
FullHistory == TrendToRecords(trend, Len(trend))

\* C1: for calculatePeriodReturns and calculateFromHistory, a lookback window
\* for which the history holds no record dated at or before (now - w days) has
\* no entry in the result (so none reporting 0 either).
C1_OmitsShortWindows ==
    periodOut.fn # "none" =>
        \A w \in Windows :
            Qualifying(FullHistory, periodOut.at, w) = {} =>
                EntriesFor(periodOut.result, w) = {}

\* the spec's example: history [(d0, 1.000), (d7, 1.020)] evaluated on d7 has an
\* entry for the 7-day window and none for the 30-day window
C1_Witness ==
    /\ periodOut.fn = "calculatePeriodReturns"
    /\ trend = << [day |-> Today - 7, y |-> 1000], [day |-> Today, y |-> 1020] >>
    /\ EntriesFor(periodOut.result, 7) # {}
    /\ Qualifying(FullHistory, periodOut.at, 30) = {}
    /\ EntriesFor(periodOut.result, 30) = {}

\* the change reported for window w is computed from the nearest record at or
\* before (at - w days) and the newest record
ReportsNearest(history, at, result, w) ==
    /\ Cardinality(EntriesFor(result, w)) = 1
    /\ \A j \in EntriesFor(result, w) :
           RoundedChange(result[j].change,
                         history[Newest(history)].netValue,
                         history[Nearest(history, at, w)].netValue)

\* C2 as stated: calculatePeriodReturns reports, for every window for which the
\* history holds a record dated at or before (now - w days), the change from
\* the nearest such record to the newest record, rounded to 2 decimals.
C2_AsStated ==
    (periodOut.fn = "calculatePeriodReturns" /\ ~periodOut.fromCache) =>
        \A w \in Windows :
            Qualifying(periodOut.hist, periodOut.at, w) # {} =>
                ReportsNearest(periodOut.hist, periodOut.at, periodOut.result, w)

\* C2 (amended): when calculatePeriodReturns computes from a history of at
\* least two records whose newest net value is positive, every window whose
\* nearest record at or before (now - w days) has a positive net value is
\* reported with the change from that record to the newest one, rounded to 2
\* decimals; a window whose nearest record has no positive net value is
\* omitted, and a shorter history or a non-positive newest value gives an
\* empty result.
C2_NearestRecordChange ==
    (periodOut.fn = "calculatePeriodReturns" /\ ~periodOut.fromCache) =>
        IF Len(periodOut.hist) >= 2 /\ periodOut.hist[Newest(periodOut.hist)].netValue > 0
        THEN \A w \in Windows :
                Qualifying(periodOut.hist, periodOut.at, w) # {} =>
                    IF periodOut.hist[Nearest(periodOut.hist, periodOut.at, w)].netValue > 0
                    THEN ReportsNearest(periodOut.hist, periodOut.at, periodOut.result, w)
                    ELSE EntriesFor(periodOut.result, w) = {}
        ELSE periodOut.result = << >>

\* the spec's example: [(d0, 1.000), (d7, 1.020)] evaluated on d7 reports 2.00
\* for the 7-day window; and a history with two records at or before the
\* target, where the nearer one is used
C2_Witness ==
    /\ periodOut.fn = "calculatePeriodReturns"
    /\ ~periodOut.fromCache
    /\ periodOut.hist = << [date |-> Today, netValue |-> 1020],
                           [date |-> Today - 7, netValue |-> 1000] >>
    /\ \E j \in 1..Len(periodOut.result) :
           periodOut.result[j].days = 7 /\ periodOut.result[j].change = 200

(***************************************************************************)
(* Trailing (sales-service) fee of C-class shares (api/fund.ts).           *)
(* shares are whole shares, netValue is in thousandths, annualRate in      *)
(* hundredths of a percent; fees are in hundredths of a currency unit.     *)
(***************************************************************************)
\* the raw fee shares * netValue * (annualRate / 365 / 100), in hundredths of
\* a currency unit, is FeeNum / FeeDen
FeeNum(shares, netValue, annualRate) == shares * netValue * annualRate
FeeDen == 365 * 1000 * 100

\* Math.round(x) for x = n / d: the nearest integer, a tie going up
MathRound(n, d) == (2 * n + d) \div (2 * d)

\* a variant that charges the minimum also when the raw fee is zero
DailyServiceFeeFlooringZero(shares, netValue, annualRate) ==
    LET n == FeeNum(shares, netValue, annualRate)
    IN  IF n < FeeDen THEN 1 ELSE MathRound(n, FeeDen)

\* calculateDailyServiceFee: fee < 0.01 && fee > 0 ? 0.01 : Math.round(fee * 100) / 100
DailyServiceFee(shares, netValue, annualRate) ==
    LET n == FeeNum(shares, netValue, annualRate)
    IN  IF n < FeeDen /\ n > 0 THEN 1 ELSE MathRound(n, FeeDen)

\* a call of calculateDailyServiceFee with the arguments feeIn
CalculateDailyServiceFee ==
    /\ Len(feeOut) < 2
    /\ feeOut' = Append(feeOut, DailyServiceFee(feeIn[1], feeIn[2], feeIn[3]))
    /\ UNCHANGED feeIn

(***************************************************************************)
(* Specification of the fee function: it is called twice on arguments      *)
(* drawn from FeeShares, FeeNetValues and FeeRates.                        *)
(***************************************************************************)
FeeShares == {0, 1, 10, 100, 1000, 2000}
FeeNetValues == {0, 500, 1000, 1500, 2000}
FeeRates == {0, 20, 40, 100}

feeFrame == <<clockVars, storeVars, cacheOpVars, periodVars, limiterVars, req, jsonpVars, viewVars>>

InitFee ==
    /\ now = 0
    /\ ticks = 0
    /\ EnvIdle
    /\ cache = EmptyCache
    /\ persist = EmptyStore
    /\ feeIn \in FeeShares \X FeeNetValues \X FeeRates
    /\ feeOut = << >>
    /\ CacheOpsIdle /\ PeriodIdle /\ LimiterIdle /\ ReqsIdle /\ JsonpIdle /\ ViewsIdle

CallDailyServiceFee == CalculateDailyServiceFee /\ UNCHANGED feeFrame

NextFee == CallDailyServiceFee

SpecFee == InitFee /\ [][NextFee]_vars

C10_WitnessExample == feeIn = <<1000, 1500, 40>> /\ feeOut = <<2, 2>>

(***************************************************************************)
(* Calls in flight.  A handler runs to completion, so it is one step; the  *)
(* mutable state a handler touches is gathered in a record (World), the    *)
(* functions a handler calls are operators from World to World, and an     *)
(* action commits the World its handler leaves.                            *)
(*                                                                         *)
(* req[r].phase: "idle" (not called yet), "queued" (in requestQueue),      *)
(* "running" (the request is issued and its promise is pending),           *)
(* "settled" (its promise is settled; the limiter's finally has not run),  *)
(* "done".  req[r].out is the promise the caller holds.                    *)
(***************************************************************************)
World == [req |-> req, pf |-> pendingFast, ps |-> pendingSlow, gz |-> jsonpgz,
          init |-> jsonpInitialized, active |-> activeRequests,
          queue |-> requestQueue, cache |-> cache, persist |-> persist,
          rank |-> rankData]

Commit(w) ==
    /\ req' = w.req
    /\ pendingFast' = w.pf
    /\ pendingSlow' = w.ps
    /\ jsonpgz' = w.gz
    /\ jsonpInitialized' = w.init
    /\ activeRequests' = w.active
    /\ requestQueue' = w.queue
    /\ cache' = w.cache
    /\ persist' = w.persist
    /\ rankData' = w.rank

\* `estimate_${code}`
EstimateKey(code) == "estimate_" \o code

\* the index of the first entry of a pending queue whose code is `code`
\* (Array.prototype.findIndex), 0 when there is none
RECURSIVE FindCodeFrom(_, _, _, _)
FindCodeFrom(rq, queue, code, i) ==
    IF i > Len(queue) THEN 0
    ELSE IF rq[queue[i]].code = code THEN i
    ELSE FindCodeFrom(rq, queue, code, i + 1)

FindCode(rq, queue, code) == FindCodeFrom(rq, queue, code, 1)

\* clearTimeout of the timer of call q
ClearTimer(w, q) ==
    IF w.req[q].timer = "armed" THEN [w EXCEPT !.req[q].timer = "cleared"] ELSE w

\* fundFast.ts initJsonpCallback: the first call installs this module's handler
InitJsonpFast(w) ==
    IF w.init THEN w ELSE [w EXCEPT !.init = TRUE, !.gz = "fast"]

\* fund.ts initJsonpCallback: installs its handler unless one is installed
InitJsonpSlow(w) ==
    IF w.gz # "unset" THEN w ELSE [w EXCEPT !.gz = "fund"]

\* the promise executor of fetchFundEstimateFast: arm the 8 s timer, push the
\* entry, append the script
StartFast(w, r) ==
    LET w1 == InitJsonpFast(w)
    IN  [w1 EXCEPT !.req[r].phase = "running",
                   !.req[r].timer = "armed",
                   !.req[r].deadline = now + FAST_TIMEOUT,
                   !.req[r].script = "loading",
                   !.pf = Append(w1.pf, r)]

\* the function a call passes to the limiter starts
StartFn(w, r) ==
    IF w.req[r].fn = "fast" THEN StartFast(w, r)
    ELSE [w EXCEPT !.req[r].phase = "running"]

(***************************************************************************)
(* The concurrency limiter (fundFast.ts).                                  *)
(***************************************************************************)
\* execute(): activeRequests++, then fn()
Execute(w, r) == StartFn([w EXCEPT !.active = w.active + 1], r)

\* a variant that lets one request too many start
WithConcurrencyControlOffByOne(w, r) ==
    IF w.active <= MAX_CONCURRENT THEN Execute(w, r)
    ELSE [w EXCEPT !.queue = Append(w.queue, r), !.req[r].phase = "queued"]

\* withConcurrencyControl(fn)
WithConcurrencyControl(w, r) ==
    IF w.active < MAX_CONCURRENT THEN Execute(w, r)
    ELSE [w EXCEPT !.queue = Append(w.queue, r), !.req[r].phase = "queued"]

\* a variant that leaves the queue as it is
ExecuteNextIdle(w) == w

\* executeNext()
ExecuteNext(w) ==
    IF Len(w.queue) > 0 /\ w.active < MAX_CONCURRENT
    THEN Execute([w EXCEPT !.queue = Tail(w.queue)], Head(w.queue))
    ELSE w

\* the finally block of execute(): activeRequests--, executeNext()
FinallyBlock(w, r) ==
    ExecuteNext([w EXCEPT !.active = w.active - 1, !.req[r].phase = "done"])

\* resolve / reject of the promise of call r: a settled promise stays as it is.
\* fetchFundEstimateFast hands the limiter the request's promise itself, so the
\* continuation of `await fn()` is the next microtask after the handler that
\* settles it: the finally block runs before any other handler.  A function
\* of another caller may settle anywhere, and its finally is a step of its own.
SettleTo(w, r, outcome) ==
    IF w.req[r].out.kind # "pending" THEN w
    ELSE LET w1 == [w EXCEPT !.req[r].out = outcome]
         IN  IF w.req[r].fn = "fast" THEN FinallyBlock(w1, r)
             ELSE [w1 EXCEPT !.req[r].phase = IF w.req[r].fn = "task"
                                              THEN "settled" ELSE "done"]

\* calls are made in the order of their ids (the ids are only names)
NextToCall(r) ==
    /\ req[r].phase = "idle"
    /\ IF r = 1 THEN TRUE ELSE req[r - 1].phase # "idle"

\* withConcurrencyControl(fn) for a function fn of the caller
SubmitTask(r) ==
    /\ NextToCall(r)
    /\ Commit(WithConcurrencyControl([World EXCEPT !.req[r].fn = "task"], r))

\* the promise of fn resolves (ok) or rejects
TaskSettles(r, ok) ==
    /\ req[r].fn = "task"
    /\ req[r].phase = "running"
    /\ Commit(SettleTo(World, r, IF ok THEN Resolved(NoEstimate) ELSE Rejected))

\* the continuation of `await fn()` in execute(): the finally block
Finally(r) ==
    /\ req[r].phase = "settled"
    /\ Commit(FinallyBlock(World, r))

(***************************************************************************)
(* Specification of the limiter under NumTasks calls.                      *)
(***************************************************************************)
limiterFrame == <<clockVars, cacheOpVars, periodVars, feeVars, viewVars>>

InitIdle ==
    /\ now = 0
    /\ ticks = 0
    /\ EnvIdle
    /\ cache = EmptyCache
    /\ persist = EmptyStore
    /\ CacheOpsIdle /\ PeriodIdle /\ FeeIdle /\ LimiterIdle /\ ReqsIdle /\ JsonpIdle /\ ViewsIdle

InitLimiter == InitIdle

DoSubmit == \E r \in Ids : SubmitTask(r) /\ UNCHANGED limiterFrame
DoTaskSettles == \E r \in Ids, ok \in BOOLEAN : TaskSettles(r, ok) /\ UNCHANGED limiterFrame
DoFinally == \E r \in Ids : Finally(r) /\ UNCHANGED limiterFrame

NextLimiter == DoSubmit \/ DoTaskSettles \/ DoFinally

SpecLimiter == InitLimiter /\ [][NextLimiter]_vars

\* the calls whose function has started and whose promise is pending
Executing == {r \in Ids : req[r].phase = "running"}

\* C9: at most 5 requests submitted through the limiter are executing; a
\* request submitted while 5 are executing is queued, and a queued request is
\* started only in the step in which an executing request that has settled
\* releases its slot.
C9_AtMostFiveExecuting ==
    /\ [](Cardinality(Executing) <= MAX_CONCURRENT /\ activeRequests <= MAX_CONCURRENT)
    /\ [][\A r \in Ids :
            /\ (req[r].phase = "idle" /\ req'[r].phase # "idle"
                    /\ Cardinality(Executing) = MAX_CONCURRENT)
                => req'[r].phase = "queued"
            /\ (req[r].phase = "queued" /\ req'[r].phase = "running")
                => \E q \in Ids : req[q].phase = "settled" /\ req'[q].phase = "done"]_vars

\* five requests are executing and a sixth, submitted meanwhile, is queued
C9_Witness ==
    /\ Cardinality(Executing) = MAX_CONCURRENT
    /\ Len(requestQueue) > 0
    /\ \A i \in 1..Len(requestQueue) : req[requestQueue[i]].phase = "queued"

\* a request that was queued behind five executing ones has been started
C9_WitnessStarted ==
    /\ req[NumTasks].phase = "running"
    /\ Cardinality({r \in Ids : req[r].phase = "done"}) = 1
    /\ Cardinality(Executing) = MAX_CONCURRENT


\* the calls that hold a slot: execute() has incremented activeRequests and its
\* finally block has not run
HoldingSlot == {r \in Ids : req[r].phase \in {"running", "settled"}}

\* C29: after every limiter event no request remains queued while fewer than 5
\* requests hold a slot: a non-empty queue implies that exactly 5 requests are
\* executing (activeRequests = 5), and the step that releases a slot starts the
\* request at the head of the queue.
C29_QueuedOnlyWhenFull ==
    /\ [](Len(requestQueue) > 0 =>
              /\ activeRequests = MAX_CONCURRENT
              /\ Cardinality(HoldingSlot) = MAX_CONCURRENT)
    /\ [][\A q \in Ids :
              (req[q].phase = "settled" /\ req'[q].phase = "done" /\ Len(requestQueue) > 0)
                  => /\ req'[Head(requestQueue)].phase = "running"
                     /\ requestQueue' = Tail(requestQueue)
                     /\ activeRequests' = MAX_CONCURRENT]_vars

\* a request is queued behind five that hold a slot, one of which has settled
\* and is about to release it
C29_Witness ==
    /\ Len(requestQueue) > 0
    /\ activeRequests = MAX_CONCURRENT
    /\ \E r \in Ids : req[r].phase = "settled"

\* the slot was released and the queued request took it at once: the queue is
\* empty and five requests hold a slot again
C29_WitnessReleased ==
    /\ requestQueue = << >>
    /\ activeRequests = MAX_CONCURRENT
    /\ \E r \in Ids : req[r].phase = "done"
    /\ \A r \in Ids : req[r].phase # "idle"
(***************************************************************************)
(* Real-time estimates over JSONP: fetchFundEstimateFast (fundFast.ts),    *)
(* fetchFundEstimate (fund.ts) and the window.jsonpgz callback they share. *)
(***************************************************************************)
\* a variant that is still open during the hour that begins at 15:00
IsTradingTimeThroughThree ==
    LET isWeekday == wall.day >= 1 /\ wall.day <= 5
        isMarketOpen == (wall.hour > 9 \/ (wall.hour = 9 /\ wall.minute >= 30))
                            /\ wall.hour <= 15
    IN  isWeekday /\ isMarketOpen

\* isTradingTime(): a weekday, from 9:30 up to 15:00
IsTradingTime ==
    LET isWeekday == wall.day >= 1 /\ wall.day <= 5
        isMarketOpen == (wall.hour > 9 \/ (wall.hour = 9 /\ wall.minute >= 30))
                            /\ wall.hour < 15
    IN  isWeekday /\ isMarketOpen

\* JSON.parse(JSON.stringify(data)): strings and finite numbers survive, an
\* infinite number (the open end of a distribution range) becomes null
Json(data) ==
    IF "lo" \in DOMAIN data THEN [data EXCEPT !.lo = "null"] ELSE data

\* persistCache.get and the store after persistCache.set
PersistGet(p, key) == p[key]
PersistSet(p, key, data) == [p EXCEPT ![key] = Hit(Json(data))]

\* a call returns data without issuing a request
Return(w, r, data) ==
    [w EXCEPT !.req[r].out = Resolved(data), !.req[r].phase = "done"]

\* fetchFundEstimateFast(code), up to its first await
FetchFundEstimateFastCall(w, r, code) ==
    LET key == EstimateKey(code)
        cached == CacheGet(w.cache, key)
        persisted == PersistGet(w.persist, key)
        w1 == [w EXCEPT !.cache = CacheAfterGet(w.cache, key),
                        !.req[r].fn = "fast",
                        !.req[r].code = code]
    IN  IF cached.has THEN Return(w1, r, cached.data)
        ELSE IF ~IsTradingTime /\ persisted.has
        THEN Return([w1 EXCEPT !.cache = CacheAfterSet(w1.cache, key, persisted.data,
                                                      TTL_ESTIMATE)],
                    r, persisted.data)
        ELSE WithConcurrencyControl([w1 EXCEPT !.req[r].persisted = persisted], r)

\* fetchFundEstimate(code) of fund.ts: no cache, no limiter, a 10 s timer
FetchFundEstimateCall(w, r, code) ==
    LET w1 == InitJsonpSlow(w)
    IN  [w1 EXCEPT !.req[r].fn = "slow",
                   !.req[r].code = code,
                   !.req[r].phase = "running",
                   !.req[r].timer = "armed",
                   !.req[r].deadline = now + SLOW_TIMEOUT,
                   !.req[r].script = "loading",
                   !.ps = Append(w1.ps, r)]

\* entry.resolve of fundFast.ts: cache.set, persistCache.set, resolve
EntryResolve(w, q, data) ==
    LET key == EstimateKey(w.req[q].code)
    IN  SettleTo([w EXCEPT !.cache = CacheAfterSet(w.cache, key, data, TTL_ESTIMATE),
                           !.persist = PersistSet(w.persist, key, data)],
                 q, Resolved(data))

\* window.jsonpgz as installed by fundFast.ts
JsonpgzFast(w, data) ==
    LET idx == FindCode(w.req, w.pf, data.fundcode)
    IN  IF data.fundcode = "" THEN w
        ELSE IF idx = 0 THEN w
        ELSE EntryResolve([ClearTimer(w, w.pf[idx]) EXCEPT !.pf = RemoveAt(w.pf, idx)],
                          w.pf[idx], data)

\* window.jsonpgz as installed by fund.ts
JsonpgzSlow(w, data) ==
    LET idx == FindCode(w.req, w.ps, data.fundcode)
    IN  IF data.fundcode = "" THEN w
        ELSE IF idx = 0 THEN w
        ELSE SettleTo([ClearTimer(w, w.ps[idx]) EXCEPT !.ps = RemoveAt(w.ps, idx)],
                      w.ps[idx], Resolved(data))

\* the response script calls window.jsonpgz(data)
Jsonpgz(w, data) ==
    IF w.gz = "fast" THEN JsonpgzFast(w, data)
    ELSE IF w.gz = "fund" THEN JsonpgzSlow(w, data)
    ELSE w

\* script.onerror of fetchFundEstimateFast
OnErrorFast(w, r) ==
    LET idx == FindCode(w.req, w.pf, w.req[r].code)
        w1 == IF idx = 0 THEN w
              ELSE [ClearTimer(w, w.pf[idx]) EXCEPT !.pf = RemoveAt(w.pf, idx)]
    IN  SettleTo(w1, r, IF w.req[r].persisted.has
                        THEN Resolved(w.req[r].persisted.data) ELSE Rejected)

\* script.onerror of fetchFundEstimate
OnErrorSlow(w, r) ==
    LET idx == FindCode(w.req, w.ps, w.req[r].code)
        w1 == IF idx = 0 THEN w
              ELSE [ClearTimer(w, w.ps[idx]) EXCEPT !.ps = RemoveAt(w.ps, idx)]
    IN  SettleTo(w1, r, Rejected)

\* the 8 s timer of fetchFundEstimateFast
OnTimeoutFast(w, r) ==
    LET idx == FindCode(w.req, w.pf, w.req[r].code)
        w1 == IF idx = 0 THEN w ELSE [w EXCEPT !.pf = RemoveAt(w.pf, idx)]
    IN  SettleTo(w1, r, IF w.req[r].persisted.has
                        THEN Resolved(w.req[r].persisted.data) ELSE Rejected)

\* the 10 s timer of fetchFundEstimate
OnTimeoutSlow(w, r) ==
    LET idx == FindCode(w.req, w.ps, w.req[r].code)
        w1 == IF idx = 0 THEN w ELSE [w EXCEPT !.ps = RemoveAt(w.ps, idx)]
    IN  SettleTo(w1, r, Rejected)

(***************************************************************************)
(* Events of the estimate requests.                                        *)
(***************************************************************************)
EstReqs == 1..NumReqs

\* the estimate the server holds for a code, and a response without fundcode
LiveValues == {1}
NoFundcode == [fundcode |-> "", gsz |-> 0]
Responses(code) == {[fundcode |-> code, gsz |-> v] : v \in LiveValues} \cup {NoFundcode}

\* an estimate persisted by an earlier session
OldEstimate(code) == [fundcode |-> code, gsz |-> 0]

\* the codes are only names: the first call is for the first code
FirstCode(r, code) == r = 1 => code = "c1"

FetchFundEstimateFast(r, code) ==
    /\ NextToCall(r)
    /\ FirstCode(r, code)
    /\ Commit(FetchFundEstimateFastCall(World, r, code))

FetchFundEstimate(r, code) ==
    /\ NextToCall(r)
    /\ FirstCode(r, code)
    /\ Commit(FetchFundEstimateCall(World, r, code))

\* the script of request r loads and runs: it calls window.jsonpgz(data)
ScriptRuns(r, data) ==
    /\ req[r].script = "loading"
    /\ req[r].fn \in {"fast", "slow"}
    /\ Commit(Jsonpgz([World EXCEPT !.req[r].script = "ran", !.req[r].got = data], data))

\* the script of request r fails to load
ScriptError(r) ==
    /\ req[r].script = "loading"
    /\ req[r].fn \in {"fast", "slow"}
    /\ LET w == [World EXCEPT !.req[r].script = "failed"]
       IN  Commit(IF req[r].fn = "fast" THEN OnErrorFast(w, r) ELSE OnErrorSlow(w, r))

\* the instants at which the armed timers are due
ArmedDeadlines ==
    {req[q].deadline : q \in {p \in Ids : req[p].timer = "armed"}}
        \cup {req[q].procAt : q \in {p \in Ids : req[p].delay = "armed"}}

\* timers fire in the order of their deadlines, once they are due
TimerDue(r) ==
    /\ req[r].timer = "armed"
    /\ now >= req[r].deadline
    /\ \A d \in ArmedDeadlines : d >= req[r].deadline

Timeout(r) ==
    /\ TimerDue(r)
    /\ req[r].fn \in {"fast", "slow"}
    /\ LET w == [World EXCEPT !.req[r].timer = "fired"]
       IN  Commit(IF req[r].fn = "fast" THEN OnTimeoutFast(w, r) ELSE OnTimeoutSlow(w, r))

\* time passes, up to the moment a timer is due
NoTimerDue == \A d \in ArmedDeadlines : now < d

(***************************************************************************)
(* Specification of the estimate requests: NumReqs calls of either         *)
(* function for two codes.                                                 *)
(***************************************************************************)
WallSamples == {Monday1000, [day |-> 6, hour |-> 10, minute |-> 0]}
EstimateSteps == {TTL_ESTIMATE + 1, SLOW_TIMEOUT}

estimateFrame == <<cacheOpVars, periodVars, feeVars, viewVars>>

Init ==
    /\ now = 0
    /\ ticks = 0
    /\ wall \in WallSamples
    /\ isNativeApp = FALSE
    /\ cache = EmptyCache
    /\ \E old \in {{}, Codes} :
          persist = [k \in PersistKeys |->
                        IF \E c \in old : k = EstimateKey(c)
                        THEN Hit(OldEstimate(CHOOSE c \in old : k = EstimateKey(c)))
                        ELSE Miss]
    /\ CacheOpsIdle /\ PeriodIdle /\ FeeIdle /\ LimiterIdle /\ ReqsIdle /\ JsonpIdle /\ ViewsIdle

CallFast ==
    \E r \in EstReqs, c \in Codes :
        FetchFundEstimateFast(r, c) /\ UNCHANGED <<clockVars, estimateFrame>>
CallSlow ==
    \E r \in EstReqs, c \in Codes :
        FetchFundEstimate(r, c) /\ UNCHANGED <<clockVars, estimateFrame>>
Response ==
    \E r \in EstReqs : \E data \in Responses(req[r].code) :
        ScriptRuns(r, data) /\ UNCHANGED <<clockVars, estimateFrame>>
LoadError ==
    \E r \in EstReqs : ScriptError(r) /\ UNCHANGED <<clockVars, estimateFrame>>
TimerFires ==
    \E r \in EstReqs : Timeout(r) /\ UNCHANGED <<clockVars, estimateFrame>>
TickEstimate ==
    \E d \in EstimateSteps :
        /\ NoTimerDue
        /\ Tick(d)
        /\ UNCHANGED <<envVars, storeVars, limiterVars, req, jsonpVars, estimateFrame>>

Next ==
    CallFast \/ CallSlow \/ Response \/ LoadError \/ TimerFires \/ TickEstimate

Spec == Init /\ [][Next]_vars

TypeOK == activeRequests \in 0..NumReqs

(***************************************************************************)
(* Properties of the estimate requests.                                    *)
(***************************************************************************)
InQueue(queue, r) == \E i \in 1..Len(queue) : queue[i] = r

\* request r is issued and the promise its caller holds is pending
IsPending(r) == req[r].phase = "running" /\ req[r].out.kind = "pending"

\* the step is a call of window.jsonpgz with a response carrying a fundcode,
\* made by the script of request r
CallbackNow(r) ==
    /\ req[r].script = "loading"
    /\ req'[r].script = "ran"
    /\ req'[r].got.fundcode # ""

PendingFor(code) == {q \in EstReqs : IsPending(q) /\ req[q].code = code}

Untouched(q) ==
    /\ req'[q].out = req[q].out
    /\ req'[q].timer = req[q].timer
    /\ InQueue(pendingFast', q) = InQueue(pendingFast, q)
    /\ InQueue(pendingSlow', q) = InQueue(pendingSlow, q)

\* C7: when jsonpgz is called with a response for code c and a request for c
\* is pending, exactly one pending request is resolved, it is a request for c
\* and it receives that response; no pending request for another code is
\* resolved, removed or loses its timer; when no request for c is pending the
\* response changes no state.
C7_AsStated ==
    [][\A r \in EstReqs :
          CallbackNow(r) =>
              LET data == req'[r].got
              IN  /\ PendingFor(data.fundcode) # {}
                        => \E q \in PendingFor(data.fundcode) :
                              /\ req'[q].out = Resolved(data)
                              /\ \A p \in EstReqs \ {q} : req'[p].out = req[p].out
                  /\ \A p \in EstReqs :
                        (IsPending(p) /\ req[p].code # data.fundcode) => Untouched(p)
                  /\ PendingFor(data.fundcode) = {}
                        => /\ \A p \in EstReqs : Untouched(p)
                           /\ UNCHANGED <<cache, persist>>]_vars

\* a response for a code has been delivered and dropped while a request for
\* that code was, and stays, pending
C7_ResponseDropped ==
    \E r, q \in EstReqs :
        /\ req[r].script = "ran"
        /\ req[r].got.fundcode = req[q].code
        /\ IsPending(q)

(***************************************************************************)
(* The estimate requests under fair timers: a timer that is due fires, and *)
(* time passes as long as an armed timer waits for it.  A script may stay  *)
(* loading for ever.                                                       *)
(***************************************************************************)
TimePasses ==
    /\ ArmedDeadlines # {}
    /\ NoTimerDue
    /\ now' = now + SLOW_TIMEOUT
    /\ UNCHANGED <<ticks, envVars, storeVars, limiterVars, req, jsonpVars, estimateFrame>>

NextFair == CallFast \/ CallSlow \/ Response \/ LoadError \/ TimerFires \/ TimePasses

SpecFair == Init /\ [][NextFair]_vars /\ WF_vars(TimerFires) /\ WF_vars(TimePasses)

\* C8: every estimate request issued by fetchFundEstimateFast or
\* fetchFundEstimate is eventually settled (by its timeout, if no callback and
\* no script error settles it first), under every interleaving, several
\* concurrent requests for one code included.
C8_AsStated ==
    \A r \in EstReqs : (req[r].phase = "running") ~> (req[r].out.kind # "pending")

\* a fast request is pending with no timer and no entry, so that no event is
\* left to settle it once its own script has run or failed
C8_Orphaned ==
    \E r \in EstReqs :
        /\ req[r].fn = "fast"
        /\ IsPending(r)
        /\ req[r].timer = "cleared"
        /\ ~InQueue(pendingFast, r)
        /\ req[r].script # "loading"


\* C16 as stated: a timeout or a network error of an upstream fetch never
\* reaches the caller as a rejected promise: no call of fetchFundEstimate or
\* fetchFundEstimateFast is ever rejected.
C16_AsStated == \A r \in EstReqs : req[r].out.kind # "rejected"

\* a call of fetchFundEstimate has been rejected after its script failed to
\* load or its timer fired
C16_EstimateRejected ==
    \E r \in EstReqs :
        /\ req[r].fn = "slow"
        /\ req[r].out.kind = "rejected"
        /\ req[r].script = "failed" \/ req[r].timer = "fired"

\* what fetchFundEstimateFast guarantees: a call made while a value was
\* persisted for its code is never rejected
C16_FastResolvesWithPersisted ==
    \A r \in EstReqs :
        (req[r].fn = "fast" /\ req[r].persisted.has) => req[r].out.kind # "rejected"
(***************************************************************************)
(* fetchWithPersistCache (tiantianApi.ts): the generic wrapper over the    *)
(* two cache tiers.  Its data are records with a tag; a validator is "any" *)
(* (the default, () => true) or "strict" (accepts the tag "good" only).    *)
(***************************************************************************)
NullValue == [tag |-> "null"]
WrapValues == {[tag |-> "good"], [tag |-> "bad"]}
Validators == {"any", "strict"}

Valid(val, data) == val = "any" \/ data.tag = "good"

\* the value a maybe-null expression of the wrapper returns
OrNull(m) == IF m.has THEN m.data ELSE NullValue

\* a variant that asks the fetcher whenever the memory tier misses
FetchWithPersistCacheCallAlwaysLive(w, r, key, val) ==
    LET memCached == CacheGet(w.cache, key)
        w1 == [w EXCEPT !.cache = CacheAfterGet(w.cache, key),
                        !.req[r].fn = "wrap",
                        !.req[r].code = key,
                        !.req[r].val = val,
                        !.req[r].got = NullValue]
    IN  IF memCached.has THEN Return(w1, r, memCached.data)
        ELSE [w1 EXCEPT !.req[r].phase = "running",
                        !.req[r].persisted = PersistGet(w.persist, key),
                        !.req[r].script = "loading"]

\* fetchWithPersistCache(key, fetcher, validator), up to `await fetcher()`;
\* req[r].script stands for the request of the fetcher
FetchWithPersistCacheCall(w, r, key, val) ==
    LET memCached == CacheGet(w.cache, key)
        persistCached == PersistGet(w.persist, key)
        w1 == [w EXCEPT !.cache = CacheAfterGet(w.cache, key),
                        !.req[r].fn = "wrap",
                        !.req[r].code = key,
                        !.req[r].val = val,
                        !.req[r].got = NullValue]
    IN  IF memCached.has THEN Return(w1, r, memCached.data)
        ELSE IF ~IsTradingTime /\ persistCached.has /\ Valid(val, persistCached.data)
        THEN Return([w1 EXCEPT !.cache = CacheAfterSet(w1.cache, key, persistCached.data,
                                                      TTL_MARKET_INDEX)],
                    r, persistCached.data)
        ELSE [w1 EXCEPT !.req[r].phase = "running",
                        !.req[r].persisted = persistCached,
                        !.req[r].script = "loading"]

\* a variant that stores whatever the fetcher resolves with
AfterFetcherUnvalidated(w, r, res) ==
    LET key == w.req[r].code
    IN  IF res.has
        THEN Return([w EXCEPT !.cache = CacheAfterSet(w.cache, key, res.data,
                                                     TTL_MARKET_INDEX),
                              !.persist = PersistSet(w.persist, key, res.data)],
                    r, res.data)
        ELSE Return(w, r, OrNull(w.req[r].persisted))

\* the fetcher resolves with res (a value, or null): the rest of the try block
AfterFetcher(w, r, res) ==
    LET key == w.req[r].code
    IN  IF res.has /\ Valid(w.req[r].val, res.data)
        THEN Return([w EXCEPT !.cache = CacheAfterSet(w.cache, key, res.data,
                                                     TTL_MARKET_INDEX),
                              !.persist = PersistSet(w.persist, key, res.data)],
                    r, res.data)
        ELSE Return(w, r, OrNull(w.req[r].persisted))

\* the fetcher rejects: the catch block
AfterFetcherThrows(w, r) == Return(w, r, OrNull(w.req[r].persisted))

(***************************************************************************)
(* fetchMarketOverview, initMobileDefaultCache and the background update   *)
(* (tiantianApi.ts).  An overview is [updateTime, totalUp, totalDown, lo], *)
(* lo being the open lower end of its first distribution range.            *)
(***************************************************************************)
OverviewKey == "market_overview_v2"
OVERVIEW_DELAY == 1
OVERVIEW_TIMEOUT == 80
BACKGROUND_TIMEOUT == 100
DEFAULT_UP == 3000
DEFAULT_DOWN == 5000

DefaultOverview ==
    [updateTime |-> "waiting", totalUp |-> DEFAULT_UP, totalDown |-> DEFAULT_DOWN,
     lo |-> "-Infinity"]
EmptyOverview == [updateTime |-> "--", totalUp |-> 0, totalDown |-> 0, lo |-> "-Infinity"]

\* the overview computed from the rows of window.rankData
OverviewResult(rank) ==
    [updateTime |-> "now", totalUp |-> IF rank.has THEN rank.ups ELSE 0,
     totalDown |-> IF rank.has THEN rank.downs ELSE 0, lo |-> "-Infinity"]

HasTotals(o) == o.totalUp > 0 \/ o.totalDown > 0

\* initMobileDefaultCache()
InitMobileDefaultCache(w) ==
    LET existing == PersistGet(w.persist, OverviewKey)
    IN  IF existing.has /\ existing.data.totalUp > 0 THEN w
        ELSE [w EXCEPT !.persist = PersistSet(w.persist, OverviewKey, DefaultOverview)]

\* persisted || createEmptyData()
OrEmpty(m) == IF m.has THEN m.data ELSE EmptyOverview

\* fetchMarketOverviewInBackground(currentData), up to appendChild
StartBackground(w, r) ==
    [w EXCEPT !.rank = NoRank,
              !.req[r].fn = "bg",
              !.req[r].timer = "armed",
              !.req[r].deadline = now + BACKGROUND_TIMEOUT,
              !.req[r].script = "loading"]

\* fetchMarketOverview() from the native-app test on
OverviewLivePath(w, r, persisted) ==
    IF isNativeApp /\ persisted.has /\ persisted.data.totalUp > 0
    THEN Return(StartBackground(
                    [w EXCEPT !.cache = CacheAfterSet(w.cache, OverviewKey, persisted.data,
                                                     TTL_MARKET_INDEX)], r),
                r, persisted.data)
    ELSE [w EXCEPT !.rank = NoRank,
                   !.req[r].phase = "running",
                   !.req[r].persisted = persisted,
                   !.req[r].timer = "armed",
                   !.req[r].deadline = now + OVERVIEW_TIMEOUT,
                   !.req[r].script = "loading"]

\* fetchMarketOverview(), up to appendChild
FetchMarketOverviewCall(w, r) ==
    LET cached == CacheGet(w.cache, OverviewKey)
        persisted == PersistGet(w.persist, OverviewKey)
        w1 == [w EXCEPT !.cache = CacheAfterGet(w.cache, OverviewKey),
                        !.req[r].fn = "overview",
                        !.req[r].code = OverviewKey]
        w2 == InitMobileDefaultCache(w1)
        defaultData == PersistGet(w2.persist, OverviewKey)
    IN  IF cached.has THEN Return(w1, r, cached.data)
        ELSE IF ~IsTradingTime /\ persisted.has /\ HasTotals(persisted.data)
        THEN Return([w1 EXCEPT !.cache = CacheAfterSet(w1.cache, OverviewKey,
                                                      persisted.data, TTL_MARKET_INDEX)],
                    r, persisted.data)
        ELSE IF ~IsTradingTime
        THEN IF defaultData.has
             THEN Return([w2 EXCEPT !.cache = CacheAfterSet(w2.cache, OverviewKey,
                                                           defaultData.data,
                                                           TTL_MARKET_INDEX)],
                         r, defaultData.data)
             ELSE OverviewLivePath(w2, r, persisted)
        ELSE OverviewLivePath(w1, r, persisted)

\* resolve(data) of the promise fetchMarketOverview returns; resolves counts
\* its calls, and the flag `resolved` is set with every one of them
ResolveOverview(w, r, data) ==
    SettleTo([w EXCEPT !.req[r].resolves = @ + 1], r, Resolved(data))

\* a variant without the flag
SafeResolveUnguarded(w, r, data) == ResolveOverview(ClearTimer(w, r), r, data)

\* safeResolve(data)
SafeResolve(w, r, data) ==
    IF w.req[r].resolves > 0 THEN w
    ELSE ResolveOverview(ClearTimer(w, r), r, data)

\* script.onload: arm the 100 ms timer
OnLoadOverview(w, r) ==
    [w EXCEPT !.req[r].delay = "armed", !.req[r].procAt = now + OVERVIEW_DELAY]

\* the 100 ms timer of fetchMarketOverview: read window.rankData, count
OnDelayOverview(w, r) ==
    LET result == OverviewResult(w.rank)
    IN  IF HasTotals(result)
        THEN SafeResolve([w EXCEPT !.cache = CacheAfterSet(w.cache, OverviewKey, result,
                                                          TTL_MARKET_INDEX),
                                   !.persist = PersistSet(w.persist, OverviewKey, result)],
                         r, result)
        ELSE SafeResolve(w, r, OrEmpty(w.req[r].persisted))

\* the 100 ms timer of the background update
OnDelayBackground(w, r) ==
    LET result == OverviewResult(w.rank)
        w1 == ClearTimer(w, r)
    IN  IF ~w.rank.has THEN w1
        ELSE IF HasTotals(result)
        THEN [w1 EXCEPT !.cache = CacheAfterSet(w.cache, OverviewKey, result,
                                                TTL_MARKET_INDEX),
                        !.persist = PersistSet(w.persist, OverviewKey, result)]
        ELSE w1

\* script.onerror of fetchMarketOverview and of the background update
OnErrorOverview(w, r) == SafeResolve(w, r, OrEmpty(w.req[r].persisted))
OnErrorBackground(w, r) == ClearTimer(w, r)

\* the 8 s timer of fetchMarketOverview; the 10 s timer of the background
\* update only removes the script element
OnTimeoutOverview(w, r) ==
    IF w.req[r].resolves > 0 THEN w
    ELSE ResolveOverview(w, r, OrEmpty(w.req[r].persisted))
OnTimeoutBackground(w, r) == w

(***************************************************************************)
(* Events of the wrapper and of the market overview.                       *)
(***************************************************************************)
WrapKey == "k1"

\* what a rank script leaves in window.rankData: rows with 2 rises and 1 fall,
\* or rows with no rise and 1 fall; a script may also define nothing
Ranks == {[has |-> TRUE, ups |-> 2, downs |-> 1], [has |-> TRUE, ups |-> 0, downs |-> 1]}
RankOutcomes == Ranks \cup {NoRank}

\* what a fetcher resolves with: a value or null
FetcherResults == {Hit(v) : v \in WrapValues} \cup {Miss}

FetchWithPersistCache(r, key, val) ==
    /\ NextToCall(r)
    /\ Commit(FetchWithPersistCacheCall(World, r, key, val))

FetcherReturns(r, res) ==
    /\ req[r].fn = "wrap"
    /\ req[r].phase = "running"
    /\ Commit(AfterFetcher([World EXCEPT !.req[r].script = "ran",
                                         !.req[r].got = OrNull(res)], r, res))

FetcherThrows(r) ==
    /\ req[r].fn = "wrap"
    /\ req[r].phase = "running"
    /\ Commit(AfterFetcherThrows([World EXCEPT !.req[r].script = "failed"], r))

FetchMarketOverview(r) ==
    /\ NextToCall(r)
    /\ Commit(FetchMarketOverviewCall(World, r))

\* the rank script of call r runs (it may define window.rankData), then onload
OverviewLoads(r, rank) ==
    /\ req[r].fn \in {"overview", "bg"}
    /\ req[r].script = "loading"
    /\ Commit(OnLoadOverview([World EXCEPT !.req[r].script = "ran",
                                           !.rank = IF rank.has THEN rank ELSE rankData],
                             r))

OverviewError(r) ==
    /\ req[r].fn \in {"overview", "bg"}
    /\ req[r].script = "loading"
    /\ LET w == [World EXCEPT !.req[r].script = "failed"]
       IN  Commit(IF req[r].fn = "overview" THEN OnErrorOverview(w, r)
                  ELSE OnErrorBackground(w, r))

\* the 100 ms timer armed by onload fires
OverviewDelay(r) ==
    /\ req[r].fn \in {"overview", "bg"}
    /\ req[r].delay = "armed"
    /\ now >= req[r].procAt
    /\ \A d \in ArmedDeadlines : d >= req[r].procAt
    /\ LET w == [World EXCEPT !.req[r].delay = "fired"]
       IN  Commit(IF req[r].fn = "overview" THEN OnDelayOverview(w, r)
                  ELSE OnDelayBackground(w, r))

OverviewTimeout(r) ==
    /\ req[r].fn \in {"overview", "bg"}
    /\ TimerDue(r)
    /\ LET w == [World EXCEPT !.req[r].timer = "fired"]
       IN  Commit(IF req[r].fn = "overview" THEN OnTimeoutOverview(w, r)
                  ELSE OnTimeoutBackground(w, r))

(***************************************************************************)
(* Specification of the two cache tiers: NumReqs calls of                  *)
(* fetchFundEstimateFast, fetchWithPersistCache and fetchMarketOverview.   *)
(***************************************************************************)
\* what an earlier session left in the store
OldOverview == Json([updateTime |-> "old", totalUp |-> 1, totalDown |-> 1, lo |-> "-Infinity"])
OldStore ==
    [k \in PersistKeys |->
        IF k = OverviewKey THEN Hit(OldOverview)
        ELSE IF k = WrapKey THEN Hit([tag |-> "good"])
        ELSE Hit(OldEstimate(CHOOSE c \in Codes : k = EstimateKey(c)))]

StoreSteps == {OVERVIEW_DELAY, SLOW_TIMEOUT}

storeFrame == <<cacheOpVars, periodVars, feeVars, viewVars>>

InitStore ==
    /\ now = 0
    /\ ticks = 0
    /\ wall \in WallSamples
    /\ isNativeApp \in BOOLEAN
    /\ cache = EmptyCache
    /\ persist \in {EmptyStore, OldStore}
    /\ CacheOpsIdle /\ PeriodIdle /\ FeeIdle /\ LimiterIdle /\ ReqsIdle /\ JsonpIdle /\ ViewsIdle

StoreCallFast ==
    \E r \in EstReqs :
        FetchFundEstimateFast(r, "c1") /\ UNCHANGED <<clockVars, storeFrame>>
StoreCallWrap ==
    \E r \in EstReqs, val \in Validators :
        FetchWithPersistCache(r, WrapKey, val) /\ UNCHANGED <<clockVars, storeFrame>>
StoreCallOverview ==
    \E r \in EstReqs : FetchMarketOverview(r) /\ UNCHANGED <<clockVars, storeFrame>>
StoreResponse ==
    \E r \in EstReqs : \E data \in Responses(req[r].code) :
        ScriptRuns(r, data) /\ UNCHANGED <<clockVars, storeFrame>>
StoreLoadError ==
    \E r \in EstReqs : ScriptError(r) /\ UNCHANGED <<clockVars, storeFrame>>
StoreTimerFires ==
    \E r \in EstReqs : Timeout(r) /\ UNCHANGED <<clockVars, storeFrame>>
StoreFetcherReturns ==
    \E r \in EstReqs, res \in FetcherResults :
        FetcherReturns(r, res) /\ UNCHANGED <<clockVars, storeFrame>>
StoreFetcherThrows ==
    \E r \in EstReqs : FetcherThrows(r) /\ UNCHANGED <<clockVars, storeFrame>>
StoreOverviewLoads ==
    \E r \in EstReqs, rank \in RankOutcomes :
        OverviewLoads(r, rank) /\ UNCHANGED <<clockVars, storeFrame>>
StoreOverviewError ==
    \E r \in EstReqs : OverviewError(r) /\ UNCHANGED <<clockVars, storeFrame>>
StoreOverviewDelay ==
    \E r \in EstReqs : OverviewDelay(r) /\ UNCHANGED <<clockVars, storeFrame>>
StoreOverviewTimeout ==
    \E r \in EstReqs : OverviewTimeout(r) /\ UNCHANGED <<clockVars, storeFrame>>
StoreTick ==
    \E d \in StoreSteps :
        /\ NoTimerDue
        /\ Tick(d)
        /\ UNCHANGED <<envVars, storeVars, limiterVars, req, jsonpVars, storeFrame>>

NextStore ==
    \/ StoreCallFast \/ StoreCallWrap \/ StoreCallOverview
    \/ StoreResponse \/ StoreLoadError \/ StoreTimerFires
    \/ StoreFetcherReturns \/ StoreFetcherThrows
    \/ StoreOverviewLoads \/ StoreOverviewError \/ StoreOverviewDelay
    \/ StoreOverviewTimeout \/ StoreTick

SpecStore == InitStore /\ [][NextStore]_vars

(***************************************************************************)
(* Properties of the two cache tiers.                                      *)
(***************************************************************************)
\* two lookups agree (both nothing, or both the same value)
Same(a, b) == a.has = b.has /\ (a.has => a.data = b.data)

\* the step is the call r of fetchFundEstimateFast or fetchWithPersistCache
CallsNow(r) ==
    /\ req[r].phase = "idle"
    /\ req'[r].phase # "idle"
    /\ req'[r].fn \in {"fast", "wrap"}

\* the cache key of call r, known once it is made
KeyOf(rec) == IF rec.fn = "fast" THEN EstimateKey(rec.code) ELSE rec.code

\* the call returned a cached value and issued no live request
ServedFromCache(r) ==
    LET key == KeyOf(req'[r])
        memory == CacheGet(cache, key)
    IN  /\ req'[r].phase = "done"
        /\ req'[r].out.kind = "resolved"
        /\ req'[r].out.data = IF memory.has THEN memory.data ELSE persist[key].data
        /\ req'[r].script = "none"
        /\ req'[r].timer = "none"
        /\ UNCHANGED <<pendingFast, activeRequests, requestQueue, persist>>

C4_WitnessRejected ==
    /\ ~IsTradingTime
    /\ \E r \in EstReqs :
          /\ req[r].fn = "wrap" /\ req[r].script = "loading"
          /\ req[r].persisted.has

\* the step is the failure of the live path of the fast request r: its script
\* fails to load, or its 8 s timer fires
FailsNow(r) ==
    /\ req[r].fn = "fast"
    /\ IsPending(r)
    /\ \/ req[r].script = "loading" /\ req'[r].script = "failed"
       \/ req[r].timer = "armed" /\ req'[r].timer = "fired"

\* the step is the failure of the fetcher of the wrapper call r: it throws, or
\* it resolves with null or with data the validator rejects
FetcherFailsNow(r) ==
    /\ req[r].fn = "wrap"
    /\ req[r].script = "loading"
    /\ \/ req'[r].script = "failed"
       \/ req'[r].script = "ran" /\ req'[r].got = NullValue
       \/ req'[r].script = "ran" /\ ~Valid(req[r].val, req'[r].got)

\* C5: if the live fetch of an estimate fails or times out while a persisted
\* value for its key exists, fetchFundEstimateFast resolves with a persisted
\* value instead of rejecting; likewise fetchWithPersistCache returns the
\* persisted value when its fetcher throws or returns invalid data.
C5_AsStated ==
    [][\A r \in EstReqs :
          /\ (FailsNow(r) /\ persist[EstimateKey(req[r].code)].has)
                => req'[r].out.kind = "resolved"
          /\ (FetcherFailsNow(r) /\ persist[req[r].code].has)
                => (req'[r].out.kind = "resolved" /\ req'[r].out.data # NullValue)]_vars

\* a fast request has been rejected while the store holds a value for its code
C5_RejectedDespitePersisted ==
    \E r \in EstReqs :
        /\ req[r].fn = "fast"
        /\ req[r].out.kind = "rejected"
        /\ persist[EstimateKey(req[r].code)].has

\* the wrapper has returned null while the store holds a value for its key
C5_NullDespitePersisted ==
    \E r \in EstReqs :
        /\ req[r].fn = "wrap"
        /\ req[r].phase = "done"
        /\ req[r].out.data = NullValue
        /\ persist[req[r].code].has

\* the fallback as the code has it: the value a failing call falls back to is
\* the one that was persisted when the call was made
C5_FallsBackToValueAtCall ==
    [][\A r \in EstReqs :
          /\ (FailsNow(r) /\ req[r].persisted.has)
                => req'[r].out = Resolved(req[r].persisted.data)
          /\ (FailsNow(r) /\ ~req[r].persisted.has) => req'[r].out.kind = "rejected"
          /\ FetcherFailsNow(r) => req'[r].out = Resolved(OrNull(req[r].persisted))]_vars

\* the step is a live fetch for key k that succeeds with valid data: an
\* estimate delivered to a pending entry of its code, a fetcher result that
\* passes the validator, or rank rows with a rise or a fall; Fetched is its data
EstimateArrives(r, k) ==
    /\ req[r].fn = "fast"
    /\ CallbackNow(r)
    /\ jsonpgz = "fast"
    /\ FindCode(req, pendingFast, req'[r].got.fundcode) # 0
    /\ k = EstimateKey(req'[r].got.fundcode)

FetcherDelivers(r, k) ==
    /\ req[r].fn = "wrap"
    /\ req[r].script = "loading"
    /\ req'[r].script = "ran"
    /\ req'[r].got # NullValue
    /\ Valid(req[r].val, req'[r].got)
    /\ k = req[r].code

RankProcessed(r, k) ==
    /\ req[r].fn \in {"overview", "bg"}
    /\ req[r].delay = "armed"
    /\ req'[r].delay = "fired"
    /\ HasTotals(OverviewResult(rankData))
    /\ k = OverviewKey

LiveFetchSucceeds(r, k) ==
    EstimateArrives(r, k) \/ FetcherDelivers(r, k) \/ RankProcessed(r, k)

Fetched(r) ==
    IF req[r].fn \in {"overview", "bg"} THEN OverviewResult(rankData) ELSE req'[r].got

\* the step is a call of fetchMarketOverview outside trading hours that finds
\* no persisted overview with a rise or a fall, and so initialises the default
DefaultInitialised(r, k) ==
    /\ k = OverviewKey
    /\ req[r].phase = "idle"
    /\ req'[r].fn = "overview"
    /\ ~IsTradingTime
    /\ ~CacheGet(cache, k).has
    /\ ~(persist[k].has /\ HasTotals(persist[k].data))

\* C6 (as stated): for every key the persisted store holds the value of the
\* most recent successful live fetch: it is written only when a live fetch
\* succeeds with valid data, and no other operation changes or removes it.
C6_AsStated ==
    [][\A k \in PersistKeys :
          /\ ~Same(persist[k], persist'[k])
                => \E r \in EstReqs : LiveFetchSucceeds(r, k)
          /\ \A r \in EstReqs :
                LiveFetchSucceeds(r, k) => Same(persist'[k], Hit(Json(Fetched(r))))]_vars

\* C6: the persisted value of a key changes only in a step in which a live
\* fetch for the key succeeds with valid data, and then it becomes the JSON
\* image of that data -- except that fetchMarketOverview, called outside trading
\* hours with no usable persisted overview, stores the default overview.  No
\* timeout, error, invalid response or cache hit changes or removes it.
C6_WrittenByLiveFetchOrDefault ==
    [][\A k \in PersistKeys :
          /\ ~Same(persist[k], persist'[k])
                => \/ \E r \in EstReqs : LiveFetchSucceeds(r, k)
                   \/ \E r \in EstReqs :
                         /\ DefaultInitialised(r, k)
                         /\ Same(persist'[k], Hit(Json(DefaultOverview)))
          /\ \A r \in EstReqs :
                LiveFetchSucceeds(r, k) => Same(persist'[k], Hit(Json(Fetched(r))))]_vars

\* a live estimate is persisted and a later request for the code has failed
\* or timed out without changing it
C6_Witness ==
    /\ persist[EstimateKey("c1")].has
    /\ persist[EstimateKey("c1")].data.gsz \in LiveValues
    /\ \E r \in EstReqs :
          /\ req[r].fn = "fast"
          /\ req[r].code = "c1"
          /\ req[r].script = "failed" \/ req[r].timer = "fired"

\* the store holds the default overview, which no live fetch delivered
C6_WitnessDefault ==
    /\ persist[OverviewKey].has
    /\ persist[OverviewKey].data.updateTime = "waiting"


(***************************************************************************)
(* Claims about fetchMarketOverview.                                       *)
(***************************************************************************)
\* the calls of fetchMarketOverview made so far, and those that went to the
\* network
OverviewCalls == {r \in EstReqs : req[r].fn = "overview"}
OverviewFetches == {r \in OverviewCalls : req[r].script # "none"}

\* C22: every call of fetchMarketOverview resolves exactly once and never
\* rejects, under every ordering of script load, script error and the 8 s
\* timeout: resolve is called at most once; while the promise is pending its
\* timeout is armed, and once the timeout has fired the promise is resolved;
\* once it is resolved no later load, error, delay or timeout event changes
\* what it resolved with.
C22_ResolvesExactlyOnce ==
    /\ [](\A r \in OverviewCalls :
             /\ req[r].out.kind # "rejected"
             /\ req[r].resolves <= 1
             /\ req[r].out.kind = "pending" => (req[r].timer = "armed" /\ req[r].resolves = 0)
             /\ req[r].timer = "fired" => req[r].out.kind = "resolved"
             /\ (r \in OverviewFetches /\ req[r].out.kind = "resolved") => req[r].resolves = 1)
    /\ [][\A r \in OverviewCalls :
             req[r].out.kind = "resolved" =>
                 /\ req[r].out' = req[r].out
                 /\ req[r].resolves' = req[r].resolves]_vars

\* a call was resolved by its timeout, and its script has loaded and its
\* 100 ms timer has fired since: resolve has still been called once
C22_Witness ==
    \E r \in OverviewFetches :
        /\ req[r].timer = "fired"
        /\ req[r].script = "ran"
        /\ req[r].delay = "fired"
        /\ req[r].out.kind = "resolved"
        /\ req[r].resolves = 1

\* a call was resolved by the script's error handler before its timeout, which
\* was cleared
C22_WitnessError ==
    \E r \in OverviewFetches :
        /\ req[r].script = "failed"
        /\ req[r].timer = "cleared"
        /\ req[r].resolves = 1

(***************************************************************************)
(* Specification of the default overview: initMobileDefaultCache (an       *)
(* export of tiantianApi.ts) and fetchMarketOverview are called on a store *)
(* an earlier session left, and the rank scripts load, fail or time out.   *)
(***************************************************************************)
\* an overview persisted on a day on which no fund of the rank rose
FallsOnlyOverview == Json(OverviewResult([has |-> TRUE, ups |-> 0, downs |-> 1]))

\* what an earlier session left under market_overview_v2
OverviewsAtStart == {Miss, Hit(OldOverview), Hit(FallsOnlyOverview)}

\* initMobileDefaultCache() called as call r; the call records what was
\* persisted when it was made
CallInitMobileDefaultCache(r) ==
    /\ NextToCall(r)
    /\ Commit([InitMobileDefaultCache(World) EXCEPT
                   !.req[r].fn = "init",
                   !.req[r].code = OverviewKey,
                   !.req[r].phase = "done",
                   !.req[r].persisted = PersistGet(persist, OverviewKey)])

InitDefault ==
    /\ now = 0
    /\ ticks = 0
    /\ wall \in WallSamples
    /\ isNativeApp \in BOOLEAN
    /\ cache = EmptyCache
    /\ \E o \in OverviewsAtStart : persist = [EmptyStore EXCEPT ![OverviewKey] = o]
    /\ CacheOpsIdle /\ PeriodIdle /\ FeeIdle /\ LimiterIdle /\ ReqsIdle /\ JsonpIdle /\ ViewsIdle

DefaultCallInit ==
    \E r \in EstReqs : CallInitMobileDefaultCache(r) /\ UNCHANGED <<clockVars, storeFrame>>
DefaultCallOverview ==
    \E r \in EstReqs : FetchMarketOverview(r) /\ UNCHANGED <<clockVars, storeFrame>>
DefaultOverviewLoads ==
    \E r \in EstReqs, rank \in RankOutcomes :
        OverviewLoads(r, rank) /\ UNCHANGED <<clockVars, storeFrame>>
DefaultOverviewError ==
    \E r \in EstReqs : OverviewError(r) /\ UNCHANGED <<clockVars, storeFrame>>
DefaultOverviewDelay ==
    \E r \in EstReqs : OverviewDelay(r) /\ UNCHANGED <<clockVars, storeFrame>>
DefaultOverviewTimeout ==
    \E r \in EstReqs : OverviewTimeout(r) /\ UNCHANGED <<clockVars, storeFrame>>
DefaultTick ==
    \E d \in StoreSteps :
        /\ NoTimerDue
        /\ Tick(d)
        /\ UNCHANGED <<envVars, storeVars, limiterVars, req, jsonpVars, storeFrame>>

NextDefault ==
    \/ DefaultCallInit \/ DefaultCallOverview
    \/ DefaultOverviewLoads \/ DefaultOverviewError \/ DefaultOverviewDelay
    \/ DefaultOverviewTimeout \/ DefaultTick

SpecDefault == InitDefault /\ [][NextDefault]_vars

\* the default overview is persisted by this step
DefaultWritten ==
    /\ Same(persist'[OverviewKey], Hit(Json(DefaultOverview)))
    /\ ~Same(persist[OverviewKey], persist'[OverviewKey])

\* C23 as stated: initMobileDefaultCache writes the default overview only when
\* no market overview is persisted; it never overwrites a persisted one.
C23_AsStated ==
    [][DefaultWritten => ~persist[OverviewKey].has]_vars

\* initMobileDefaultCache was called with an overview persisted, and the
\* default has replaced it
C23_PersistedOverwritten ==
    \E r \in EstReqs :
        /\ req[r].fn = "init"
        /\ req[r].persisted.has
        /\ req[r].persisted.data.totalDown > 0
        /\ Same(persist[OverviewKey], Hit(Json(DefaultOverview)))

\* what the guard of initMobileDefaultCache gives: a persisted overview that
\* counts at least one rise is never overwritten by the default, and a call of
\* fetchMarketOverview never writes the default over a persisted overview
C23_KeptWhenRisesCounted ==
    [][DefaultWritten =>
          /\ ~(persist[OverviewKey].has /\ persist[OverviewKey].data.totalUp > 0)
          /\ (\E r \in EstReqs : req[r].phase = "idle" /\ req'[r].fn = "overview")
                 => ~persist[OverviewKey].has]_vars

(***************************************************************************)
(* fetchOTCFundRank (tiantianApi.ts) and the shared global window.rankData *)
(* that it, fetchMarketOverview and the background update read 100 ms      *)
(* after their own script has loaded.  A rank response is told from the    *)
(* others by the number of its rising rows.                                *)
(***************************************************************************)
OtcKey == "otc_rank_desc_10"
OTC_TTL == 600
OTC_TIMEOUT == 100

\* the list fetchOTCFundRank maps from the rows of window.rankData; [] has no
\* rows
OtcItems(rank) == [rows |-> IF rank.has THEN rank.ups ELSE 0]
NoRows == [rows |-> 0]

\* document.getElementById(scriptId): the script element of call r is in the
\* document until cleanup runs
ScriptInDocument(w, r) ==
    /\ w.req[r].script # "none"
    /\ w.req[r].script # "failed"
    /\ w.req[r].delay # "fired"
    /\ w.req[r].timer # "fired"

\* fetchOTCFundRank(), up to appendChild
FetchOTCFundRankCall(w, r) ==
    LET cached == CacheGet(w.cache, OtcKey)
        w1 == [w EXCEPT !.cache = CacheAfterGet(w.cache, OtcKey),
                        !.req[r].fn = "otc",
                        !.req[r].code = OtcKey]
    IN  IF cached.has THEN Return(w1, r, cached.data)
        ELSE [w1 EXCEPT !.rank = NoRank,
                        !.req[r].phase = "running",
                        !.req[r].timer = "armed",
                        !.req[r].deadline = now + OTC_TIMEOUT,
                        !.req[r].script = "loading"]

\* the 100 ms timer of fetchOTCFundRank: read window.rankData, map its rows
OnDelayOtc(w, r) ==
    IF ~w.rank.has THEN SettleTo(w, r, Resolved(NoRows))
    ELSE SettleTo([w EXCEPT !.cache = CacheAfterSet(w.cache, OtcKey, OtcItems(w.rank),
                                                  OTC_TTL)],
                  r, Resolved(OtcItems(w.rank)))

\* script.onerror of fetchOTCFundRank
OnErrorOtc(w, r) == SettleTo(w, r, Resolved(NoRows))

\* the 10 s timer of fetchOTCFundRank; the action has marked the timer as fired
OnTimeoutOtc(w, r) ==
    IF w.req[r].script # "failed" /\ w.req[r].delay # "fired"
    THEN SettleTo(w, r, Resolved(NoRows))
    ELSE w

(***************************************************************************)
(* Specification of the rank requests: NumReqs calls of                    *)
(* fetchMarketOverview and fetchOTCFundRank in trading hours, as the       *)
(* market page makes them side by side (loadOverview and loadOTCFunds in   *)
(* onRefresh), with their scripts loading in any order.                    *)
(***************************************************************************)
\* the response to the request of call r: r rising rows and one falling row
RankOf(r) == [has |-> TRUE, ups |-> r, downs |-> 1]

RankFns == {"overview", "bg", "otc"}

InitRank ==
    /\ now = 0
    /\ ticks = 0
    /\ wall = Monday1000
    /\ isNativeApp \in BOOLEAN
    /\ cache = EmptyCache
    /\ persist \in {EmptyStore, OldStore}
    /\ CacheOpsIdle /\ PeriodIdle /\ FeeIdle /\ LimiterIdle /\ ReqsIdle /\ JsonpIdle /\ ViewsIdle

\* loadOverview
RankCallOverview ==
    \E r \in EstReqs : FetchMarketOverview(r) /\ UNCHANGED <<clockVars, storeFrame>>

\* loadOTCFunds
RankCallOtc ==
    \E r \in EstReqs :
        /\ NextToCall(r)
        /\ Commit(FetchOTCFundRankCall(World, r))
        /\ UNCHANGED <<clockVars, storeFrame>>

\* the script of call r runs: it assigns window.rankData (or, with an empty
\* body, nothing), then onload arms the 100 ms timer
RankScriptLoads ==
    \E r \in EstReqs, defines \in BOOLEAN :
        /\ req[r].fn \in RankFns
        /\ req[r].script = "loading"
        /\ Commit(OnLoadOverview([World EXCEPT !.req[r].script = "ran",
                                               !.rank = IF defines THEN RankOf(r)
                                                        ELSE rankData], r))
        /\ UNCHANGED <<clockVars, storeFrame>>

RankScriptError ==
    \E r \in EstReqs :
        /\ req[r].fn \in RankFns
        /\ req[r].script = "loading"
        /\ LET w == [World EXCEPT !.req[r].script = "failed"]
           IN  Commit(IF req[r].fn = "overview" THEN OnErrorOverview(w, r)
                      ELSE IF req[r].fn = "bg" THEN OnErrorBackground(w, r)
                      ELSE OnErrorOtc(w, r))
        /\ UNCHANGED <<clockVars, storeFrame>>

RankDelay ==
    \E r \in EstReqs :
        /\ req[r].fn \in RankFns
        /\ req[r].delay = "armed"
        /\ now >= req[r].procAt
        /\ \A d \in ArmedDeadlines : d >= req[r].procAt
        /\ LET w == [World EXCEPT !.req[r].delay = "fired"]
           IN  Commit(IF req[r].fn = "overview" THEN OnDelayOverview(w, r)
                      ELSE IF req[r].fn = "bg" THEN OnDelayBackground(w, r)
                      ELSE OnDelayOtc(w, r))
        /\ UNCHANGED <<clockVars, storeFrame>>

RankTimeout ==
    \E r \in EstReqs :
        /\ req[r].fn \in RankFns
        /\ TimerDue(r)
        /\ LET w == [World EXCEPT !.req[r].timer = "fired"]
           IN  Commit(IF req[r].fn = "overview" THEN OnTimeoutOverview(w, r)
                      ELSE IF req[r].fn = "bg" THEN OnTimeoutBackground(w, r)
                      ELSE OnTimeoutOtc(w, r))
        /\ UNCHANGED <<clockVars, storeFrame>>

RankTick ==
    \E d \in StoreSteps :
        /\ NoTimerDue
        /\ Tick(d)
        /\ UNCHANGED <<envVars, storeVars, limiterVars, req, jsonpVars, storeFrame>>

NextRank ==
    \/ RankCallOverview \/ RankCallOtc
    \/ RankScriptLoads \/ RankScriptError \/ RankDelay \/ RankTimeout \/ RankTick

SpecRank == InitRank /\ [][NextRank]_vars

\* call r has read window.rankData in its 100 ms timer and resolved with what
\* it computed from it
ComputedOverview(r) ==
    /\ req[r].fn = "overview"
    /\ req[r].delay = "fired"
    /\ req[r].out.kind = "resolved"
    /\ req[r].out.data.updateTime = "now"

ComputedOtc(r) ==
    /\ req[r].fn = "otc"
    /\ req[r].delay = "fired"
    /\ req[r].out.kind = "resolved"
    /\ req[r].out.data.rows > 0

\* C26 as stated: when fetchMarketOverview, fetchOTCFundRank and the
\* background update run side by side, each computes its result from the
\* response to its own request, never from another request's response left in
\* window.rankData.
C26_AsStated ==
    /\ \A r \in EstReqs : ComputedOverview(r) => req[r].out.data.totalUp = RankOf(r).ups
    /\ \A r \in EstReqs : ComputedOtc(r) => req[r].out.data.rows = RankOf(r).ups
    /\ (persist[OverviewKey].has /\ persist[OverviewKey].data.updateTime = "now") =>
           req[persist[OverviewKey].data.totalUp].fn \in {"overview", "bg"}

\* the overview of call 1 was computed from the response to the rank request
\* of call 2, whose script loaded within the 100 ms
C26_ForeignResponse ==
    /\ ComputedOverview(1)
    /\ req[2].fn = "otc"
    /\ req[1].out.data.totalUp = RankOf(2).ups
    /\ persist[OverviewKey].data.totalUp = RankOf(2).ups

\* what holds: a result is computed from the response of the script that ran
\* last before the 100 ms timer of the call fired
C26_ComputedFromLastResponse ==
    [][\A r \in EstReqs :
          /\ (~ComputedOverview(r) /\ ComputedOverview(r)')
                 => req'[r].out.data.totalUp = rankData.ups
          /\ (~ComputedOtc(r) /\ ComputedOtc(r)')
                 => req'[r].out.data.rows = rankData.ups]_vars

(***************************************************************************)
(* Holdings: the holding form (views/Holding.vue), the holding store       *)
(* (stores/holding.ts) and the persisted records (utils/storage.ts).       *)
(* Amounts and fees of a record are in hundredths of a currency unit, net  *)
(* values in thousandths, rates in hundredths of a percent, shares are     *)
(* whole shares; the derived amounts of a holding in memory (marketValue,  *)
(* profit, todayProfit, serviceFeeDeducted) are in thousandths of a        *)
(* currency unit.  The amounts and net values that are drawn make every    *)
(* quotient the code forms a whole number, so the arithmetic is exact;     *)
(* floating-point error is not modelled.  An optional number that is       *)
(* undefined is 0 (the code tests these fields for truthiness only).       *)
(***************************************************************************)
DEFAULT_BUY_FEE_RATE == 15

\* { ...a, ...b }
Spread(a, b) ==
    [f \in DOMAIN a \cup DOMAIN b |-> IF f \in DOMAIN b THEN b[f] ELSE a[f]]

\* the fields updateHoldingWithEstimate computes
DerivedFields == {"currentValue", "marketValue", "profit", "profitRate", "todayProfit"}

\* list.findIndex(h => h.code === code), 0 when there is none
RECURSIVE FindIndexFrom(_, _, _)
FindIndexFrom(list, code, i) ==
    IF i > Len(list) THEN 0
    ELSE IF list[i].code = code THEN i ELSE FindIndexFrom(list, code, i + 1)
FindIndex(list, code) == FindIndexFrom(list, code, 1)

\* list.filter(h => h.code !== code)
WithoutCode(list, code) == SelectSeq(list, LAMBDA h : h.code # code)

(* ---- the holding form ------------------------------------------------ *)
\* what the form holds when it is submitted
FormInput(code, shareClass, amount, netValue, deduct, feeInfoRate, serviceRate, days) ==
    [code |-> code, shareClass |-> shareClass, amount |-> amount,
     currentNetValue |-> netValue, deductBuyFee |-> deduct,
     buyFeeRate |-> feeInfoRate, serviceFeeRate |-> serviceRate,
     calculatedDays |-> days]

\* feeInfo.value?.buyFeeRate || 0.15
BuyFeeRate(f) == IF f.buyFeeRate # 0 THEN f.buyFeeRate ELSE DEFAULT_BUY_FEE_RATE

\* buyFeeAmount: the purchase fee of an A-class holding, rounded to 2 decimals
BuyFeeAmount(f) ==
    IF f.shareClass # "A" \/ ~f.deductBuyFee THEN 0
    ELSE MathRound(f.amount * BuyFeeRate(f), 100 * 100)

\* actualBuyAmount: the amount that buys shares
ActualBuyAmount(f) ==
    IF f.shareClass = "A" /\ f.deductBuyFee THEN f.amount - BuyFeeAmount(f)
    ELSE f.amount

\* amount / netValue in whole shares (amount in hundredths, netValue in
\* thousandths)
SharesFor(amount, netValue) == (amount * 10) \div netValue

\* calculatedShares, as if every amount bought shares
CalculatedSharesOfAmount(f) ==
    IF f.amount <= 0 \/ f.currentNetValue <= 0 THEN 0
    ELSE SharesFor(f.amount, f.currentNetValue)

\* calculatedShares
CalculatedShares(f) ==
    IF ActualBuyAmount(f) <= 0 \/ f.currentNetValue <= 0 THEN 0
    ELSE SharesFor(ActualBuyAmount(f), f.currentNetValue)

\* the record submitForm builds
FormRecord(f) ==
    [code |-> f.code,
     shareClass |-> f.shareClass,
     amount |-> f.amount,
     buyNetValue |-> f.currentNetValue,
     shares |-> CalculatedShares(f),
     holdingDays |-> f.calculatedDays,
     buyFeeRate |-> IF f.shareClass = "A" THEN BuyFeeRate(f) ELSE 0,
     buyFeeDeducted |-> f.shareClass = "A" /\ f.deductBuyFee,
     buyFeeAmount |-> IF f.shareClass = "A" THEN BuyFeeAmount(f) ELSE 0,
     serviceFeeRate |-> IF f.shareClass = "C" THEN f.serviceFeeRate ELSE 0,
     serviceFeeDeducted |-> 0]

(* ---- utils/storage.ts ------------------------------------------------ *)
\* a variant that always adds the record at the end
UpsertHoldingAppending(list, holding) == Append(list, holding)

\* upsertHolding: the list that is saved
UpsertHolding(list, holding) ==
    LET index == FindIndex(list, holding.code)
    IN  IF index > 0 THEN [list EXCEPT ![index] = holding]
        ELSE Append(list, holding)

\* removeHolding of storage.ts: the list that is saved
RemoveFromStorage(list, code) == WithoutCode(list, code)

(* ---- stores/holding.ts ----------------------------------------------- *)
\* the state the store's functions read and write
HoldingWorld == [holdings |-> holdings, fundHoldings |-> fundHoldings,
                 refreshes |-> refreshes, applied |-> applied]

CommitHoldings(w) ==
    /\ holdings' = w.holdings
    /\ fundHoldings' = w.fundHoldings
    /\ refreshes' = w.refreshes
    /\ applied' = w.applied

\* refreshEstimates up to its await: the codes whose estimates are requested
RefreshEstimatesCall(w) ==
    IF Len(w.holdings) = 0 THEN w
    ELSE [w EXCEPT !.refreshes =
              Append(@, [i \in 1..Len(w.holdings) |-> w.holdings[i].code])]

\* initHoldings
InitHoldingsCall(w) ==
    LET records == w.fundHoldings
        w1 == [w EXCEPT !.holdings =
                   [i \in 1..Len(records) |->
                       Spread(records[i], [loading |-> TRUE])],
               !.applied = [c \in Codes |-> NoEstimateApplied]]
    IN  IF Len(records) > 0 THEN RefreshEstimatesCall(w1) ELSE w1

\* a variant that charges no trailing fee on the day of the purchase
ChargesServiceFeeOnceHeld(holding) ==
    holding.shareClass = "C" /\ holding.serviceFeeRate # 0 /\ holding.holdingDays > 0

\* holding.shareClass === 'C' && holding.serviceFeeRate
ChargesServiceFee(holding) == holding.shareClass = "C" /\ holding.serviceFeeRate # 0

\* updateHoldingWithEstimate: the shares of the holding, recomputed when the
\* record has none
SharesOf(holding, currentValue) ==
    IF holding.shares <= 0
    THEN LET buyNav == IF holding.buyNetValue > 0 THEN holding.buyNetValue
                       ELSE currentValue
         IN  SharesFor(holding.amount, buyNav)
    ELSE holding.shares

\* updateHoldingWithEstimate: the holding with its derived fields
WithEstimate(holding, data) ==
    LET estimateValue == data.gsz
        lastValue == data.dwjz
        currentValue == IF estimateValue > 0 THEN estimateValue ELSE lastValue
        shares == SharesOf(holding, currentValue)
        marketValue == shares * currentValue
        cost == holding.amount * 10
        dailyFee == DailyServiceFee(shares, currentValue, holding.serviceFeeRate) * 10
        days == holding.holdingDays
        totalServiceFee ==
            IF ChargesServiceFee(holding) /\ days > 0 THEN dailyFee * days ELSE 0
        profit == marketValue - cost - totalServiceFee
        profitRate == IF cost > 0 THEN [num |-> profit * 100, den |-> cost]
                      ELSE [num |-> 0, den |-> 1]
        todayProfit == shares * (currentValue - lastValue)
                       - (IF ChargesServiceFee(holding) THEN dailyFee ELSE 0)
    IN  IF currentValue <= 0 THEN Spread(holding, [loading |-> FALSE])
        ELSE Spread(holding,
                 [currentValue |-> currentValue,
                  marketValue |-> marketValue,
                  profit |-> profit,
                  profitRate |-> profitRate,
                  todayProfit |-> todayProfit,
                  loading |-> FALSE,
                  shares |-> shares,
                  serviceFeeDeducted |->
                      IF holding.shareClass = "C" THEN totalServiceFee ELSE 0])

\* updateHoldingWithEstimate
UpdateHoldingWithEstimate(w, code, data) ==
    LET index == FindIndex(w.holdings, code)
        currentValue == IF data.gsz > 0 THEN data.gsz ELSE data.dwjz
    IN  IF index = 0 THEN w
        ELSE [w EXCEPT !.holdings[index] = WithEstimate(@, data),
                       !.applied[code] =
                           IF currentValue <= 0 THEN @
                           ELSE [has |-> TRUE, gsz |-> data.gsz, dwjz |-> data.dwjz]]

\* refreshEstimates, the body of results.forEach for one code: data is the
\* estimate, or has no value when the request failed
ApplyResult(w, code, data) ==
    IF data.has THEN UpdateHoldingWithEstimate(w, code, data)
    ELSE LET index == FindIndex(w.holdings, code)
         IN  IF index = 0 THEN w
             ELSE [w EXCEPT !.holdings[index] = Spread(@, [loading |-> FALSE])]

\* results.forEach over the codes from position i on
RECURSIVE ApplyResultsFrom(_, _, _, _)
ApplyResultsFrom(w, codes, results, i) ==
    IF i > Len(codes) THEN w
    ELSE ApplyResultsFrom(ApplyResult(w, codes[i], results[i]), codes, results, i + 1)

\* refreshEstimates after its await: the results of refresh k arrive
RefreshEstimatesResume(w, k, results) ==
    ApplyResultsFrom([w EXCEPT !.refreshes = RemoveAt(@, k)],
                     w.refreshes[k], results, 1)

\* a variant that saves the holding as it stands in memory after the merge
AddOrUpdateHoldingCallSavingMerged(w, record) ==
    LET index == FindIndex(w.holdings, record.code)
        merged == IF index > 0 THEN Spread(w.holdings[index], record)
                  ELSE Spread(record, [loading |-> TRUE])
        w1 == [w EXCEPT !.fundHoldings = UpsertHolding(@, merged),
                        !.holdings =
                            IF index > 0 THEN [@ EXCEPT ![index] = merged]
                            ELSE Append(@, merged),
                        !.applied[record.code] = NoEstimateApplied]
    IN  RefreshEstimatesCall(w1)

\* addOrUpdateHolding
AddOrUpdateHoldingCall(w, record) ==
    LET index == FindIndex(w.holdings, record.code)
        w1 == [w EXCEPT !.fundHoldings = UpsertHolding(@, record),
                        !.holdings =
                            IF index > 0
                            THEN [@ EXCEPT ![index] = Spread(@, record)]
                            ELSE Append(@, Spread(record, [loading |-> TRUE])),
                        !.applied[record.code] = NoEstimateApplied]
    IN  RefreshEstimatesCall(w1)

\* removeHolding of the store
RemoveHoldingCall(w, code) ==
    [w EXCEPT !.fundHoldings = RemoveFromStorage(@, code),
              !.holdings = WithoutCode(@, code),
              !.applied[code] = NoEstimateApplied]

(***************************************************************************)
(* Specification of the holdings: the store is initialised from the        *)
(* persisted records, the form is submitted, holdings are removed and      *)
(* estimate refreshes start and finish, in any order.                      *)
(***************************************************************************)
MaxRefreshes == 2

ShareClasses == {"A", "C"}
FormAmounts == {200000}
FormNetValues == {1000}
FeeInfoRates == {0}
ServiceFeeRates == {40}
HoldingDays == {0, 2}

\* what the form can hold when it passes the checks of submitForm: every
\* combination for the first fund, one C-class purchase for the second
FormInputs ==
    { FormInput("c1", sc, a, nv, d, fr, sr, days) :
        sc \in ShareClasses, a \in FormAmounts, nv \in FormNetValues,
        d \in BOOLEAN, fr \in FeeInfoRates, sr \in ServiceFeeRates, days \in HoldingDays }
    \cup
    { FormInput("c2", "C", a, nv, FALSE, fr, sr, 2) :
        a \in FormAmounts, nv \in FormNetValues, fr \in FeeInfoRates,
        sr \in ServiceFeeRates }

\* a record saved before shares were recorded
LegacyRecord(code, shareClass, buyNetValue) ==
    [code |-> code, shareClass |-> shareClass, amount |-> 200000,
     buyNetValue |-> buyNetValue, shares |-> 0, holdingDays |-> 2,
     buyFeeRate |-> 0, buyFeeDeducted |-> FALSE, buyFeeAmount |-> 0,
     serviceFeeRate |-> IF shareClass = "C" THEN 40 ELSE 0,
     serviceFeeDeducted |-> 0]

\* the persisted records the application can start with
StoredAtStart ==
    {<< >>} \cup
    {<<LegacyRecord("c1", "A", 0)>>, <<LegacyRecord("c1", "C", 1000)>>}

\* the estimates a request can deliver: gsz and dwjz as parseFloat(..) || 0
\* reads them, or nothing when the request fails
EstimateData ==
    { [has |-> TRUE, gsz |-> g, dwjz |-> d] : g \in {0, 2000}, d \in {0, 1000} }
    \cup {NoEstimateApplied}

holdingFrame == <<clockVars, storeVars, cacheOpVars, periodVars, feeVars,
                  limiterVars, req, jsonpVars, chartVars, tradingOut, detailTick, txVars, pageVars>>

InitHolding ==
    /\ now = 0
    /\ ticks = 0
    /\ EnvIdle
    /\ cache = EmptyCache
    /\ persist = EmptyStore
    /\ CacheOpsIdle /\ PeriodIdle /\ FeeIdle /\ LimiterIdle /\ ReqsIdle /\ JsonpIdle
    /\ ChartIdle /\ tradingOut = NotAsked /\ detailTick = NoTick /\ TransactionsIdle /\ PagesIdle
    /\ holdings = << >>
    /\ fundHoldings \in StoredAtStart
    /\ refreshes = << >>
    /\ applied = [c \in Codes |-> NoEstimateApplied]

\* a page that shows holdings is mounted
InitHoldings ==
    /\ Len(refreshes) < MaxRefreshes
    /\ CommitHoldings(InitHoldingsCall(HoldingWorld))
    /\ UNCHANGED holdingFrame

\* the user pulls to refresh
RefreshEstimates ==
    /\ Len(refreshes) < MaxRefreshes
    /\ Len(holdings) > 0
    /\ CommitHoldings(RefreshEstimatesCall(HoldingWorld))
    /\ UNCHANGED holdingFrame

\* the estimates of a refresh have all settled
RefreshSettles ==
    \E k \in 1..Len(refreshes) :
        \E results \in [1..Len(refreshes[k]) -> EstimateData] :
            /\ CommitHoldings(RefreshEstimatesResume(HoldingWorld, k, results))
            /\ UNCHANGED holdingFrame

\* the user submits the holding form
SubmitForm ==
    \E f \in FormInputs :
        /\ Len(refreshes) < MaxRefreshes
        /\ CommitHoldings(AddOrUpdateHoldingCall(HoldingWorld, FormRecord(f)))
        /\ UNCHANGED holdingFrame

\* the user deletes a holding
RemoveHolding ==
    \E code \in Codes :
        /\ FindIndex(holdings, code) > 0
        /\ CommitHoldings(RemoveHoldingCall(HoldingWorld, code))
        /\ UNCHANGED holdingFrame

NextHolding ==
    \/ InitHoldings
    \/ RefreshEstimates
    \/ RefreshSettles
    \/ SubmitForm
    \/ RemoveHolding

SpecHolding == InitHolding /\ [][NextHolding]_vars

(***************************************************************************)
(* Claims about the holdings.                                              *)
(***************************************************************************)
\* the holdings in memory to which an estimate has been applied since they
\* were last loaded or edited
Estimated == { i \in 1..Len(holdings) : applied[holdings[i].code].has }

\* the value an applied estimate gives a share: the estimate, or the last
\* close when there is no estimate
ValueOf(e) == IF e.gsz > 0 THEN e.gsz ELSE e.dwjz

\* the trailing fee of one day on a holding in memory, in thousandths
TrailingFeeOfDay(h, e) ==
    IF h.shareClass = "C" /\ h.serviceFeeRate # 0
    THEN DailyServiceFee(h.shares, ValueOf(e), h.serviceFeeRate) * 10
    ELSE 0

\* C11: after updateHoldingWithEstimate has applied an estimate to a holding,
\* marketValue = shares * (the estimate, or the last close when there is no
\* estimate); profit = marketValue - cost - the accumulated trailing fees (the
\* daily fee times the days held); todayProfit = shares * (that value - the
\* last close) - the trailing fee of one day; the trailing fees are zero for
\* holdings that are not C-class.
C11_DerivedFields ==
    \A i \in Estimated :
        LET h == holdings[i]
            e == applied[h.code]
        IN  /\ h.currentValue = ValueOf(e)
            /\ h.marketValue = h.shares * ValueOf(e)
            /\ h.profit = h.marketValue - h.amount * 10
                              - TrailingFeeOfDay(h, e) * h.holdingDays
            /\ h.todayProfit = h.shares * (ValueOf(e) - e.dwjz) - TrailingFeeOfDay(h, e)
            /\ e.gsz > 0 =>
                   h.todayProfit = h.shares * (e.gsz - e.dwjz) - TrailingFeeOfDay(h, e)
            /\ h.shareClass # "C" =>
                   /\ TrailingFeeOfDay(h, e) = 0
                   /\ h.profit = h.marketValue - h.amount * 10
                   /\ h.todayProfit = h.shares * (ValueOf(e) - e.dwjz)

\* an estimate has been applied to a C-class holding held for some days, and
\* trailing fees have been deducted from its profit and from today's profit
C11_Witness ==
    \E i \in Estimated :
        LET h == holdings[i]
            e == applied[h.code]
        IN  /\ h.shareClass = "C"
            /\ h.holdingDays > 0
            /\ e.gsz > 0 /\ e.dwjz > 0
            /\ TrailingFeeOfDay(h, e) > 0
            /\ h.profit < h.marketValue - h.amount * 10
            /\ h.todayProfit < h.shares * (e.gsz - e.dwjz)

\* with no estimate the last close has been used: today's profit is minus the
\* fee of the day
C11_WitnessNoEstimate ==
    \E i \in Estimated :
        LET h == holdings[i]
            e == applied[h.code]
        IN  /\ e.gsz = 0 /\ e.dwjz > 0
            /\ h.marketValue = h.shares * e.dwjz
            /\ h.todayProfit = 0 - TrailingFeeOfDay(h, e)

\* the derived fields a record carries
DerivedOf(h) == DOMAIN h \cap DerivedFields

\* a step of an estimate refresh: one starts (on its own or from
\* initHoldings) or the estimates of one arrive
RefreshStep == InitHoldings \/ RefreshEstimates \/ RefreshSettles

\* C12: in any sequence of initHoldings, refreshEstimates, addOrUpdateHolding
\* and removeHolding, no record under the persisted holdings key carries a
\* derived field (currentValue, marketValue, profit, profitRate, todayProfit),
\* and no step of an estimate refresh changes the persisted holdings.
C12_DerivedNeverPersisted ==
    /\ [](\A i \in 1..Len(fundHoldings) : DerivedOf(fundHoldings[i]) = {})
    /\ [][RefreshStep => fundHoldings' = fundHoldings]_vars

\* a holding whose derived fields had been computed was edited through the
\* form: in memory it keeps them (the market value of the shares it had
\* before), its persisted record has none
C12_Witness ==
    \E i \in 1..Len(holdings) : \E j \in 1..Len(fundHoldings) :
        /\ fundHoldings[j].code = holdings[i].code
        /\ DerivedOf(holdings[i]) = DerivedFields
        /\ DerivedOf(fundHoldings[j]) = {}
        /\ fundHoldings[j].shares > 0
        /\ holdings[i].marketValue # holdings[i].shares * holdings[i].currentValue

\* the persisted records the form has stored (a record saved before shares
\* were recorded has none)
FormStored == { j \in 1..Len(fundHoldings) :
                  fundHoldings[j].shares > 0 /\ fundHoldings[j].buyNetValue > 0 }

\* the holdings in memory whose shares updateHoldingWithEstimate has
\* recomputed: the persisted record has none and an estimate has been applied
Recomputed ==
    { i \in Estimated :
        \E j \in 1..Len(fundHoldings) :
            /\ fundHoldings[j].code = holdings[i].code
            /\ fundHoldings[j].shares = 0 }

\* C13 as stated: every record the form has stored has shares = amount /
\* netValue, so that shares * buyNetValue gives back the stored amount, and so
\* have the shares updateHoldingWithEstimate recomputes for a record without
\* shares.
C13_AsStated ==
    /\ \A j \in FormStored :
           fundHoldings[j].shares * fundHoldings[j].buyNetValue
               = fundHoldings[j].amount * 10
    /\ \A i \in Recomputed :
           holdings[i].buyNetValue > 0 =>
               holdings[i].shares * holdings[i].buyNetValue = holdings[i].amount * 10

\* C13: every record the form has stored has shares = (amount - buyFeeAmount)
\* / netValue, where buyFeeAmount is the purchase fee, positive only for an
\* A-class holding stored with the fee deducted and 0 otherwise: shares *
\* buyNetValue gives back the stored amount less that fee.  The shares
\* updateHoldingWithEstimate recomputes for a record without shares and with a
\* positive buyNetValue are the whole amount divided by buyNetValue.
C13_SharesOfAmountLessFee ==
    /\ \A j \in FormStored :
           LET r == fundHoldings[j]
           IN  /\ r.shares * r.buyNetValue = (r.amount - r.buyFeeAmount) * 10
               /\ r.buyFeeAmount > 0 => r.shareClass = "A" /\ r.buyFeeDeducted
               /\ r.shareClass = "A" /\ r.buyFeeDeducted =>
                      r.buyFeeAmount = MathRound(r.amount * r.buyFeeRate, 100 * 100)
    /\ \A i \in Recomputed :
           holdings[i].buyNetValue > 0 =>
               holdings[i].shares * holdings[i].buyNetValue = holdings[i].amount * 10

\* the form has stored an A-class record with the purchase fee deducted, and
\* the shares of a record without shares have been recomputed
C13_Witness ==
    /\ \E j \in FormStored :
           /\ fundHoldings[j].shareClass = "A"
           /\ fundHoldings[j].buyFeeAmount > 0
           /\ fundHoldings[j].shares * fundHoldings[j].buyNetValue
                  < fundHoldings[j].amount * 10
    /\ \E j \in FormStored : fundHoldings[j].buyFeeAmount = 0

\* the shares of a record without shares have been recomputed from its
\* buyNetValue
C13_WitnessRecomputed ==
    \E i \in Recomputed : holdings[i].buyNetValue > 0 /\ holdings[i].shares > 0

\* the fund codes of a list of holdings, in the order of the list
CodesOf(list) == [i \in 1..Len(list) |-> list[i].code]

\* no code stands at two positions
EachOnce(codes) == \A i, j \in 1..Len(codes) : codes[i] = codes[j] => i = j

\* the list in memory and the persisted list hold the same codes, each once
CodesAgree ==
    /\ CodesOf(holdings) = CodesOf(fundHoldings)
    /\ EachOnce(CodesOf(holdings))

\* C30: initHoldings makes the list in memory hold exactly the codes of the
\* persisted list, each at most once, and from then on every step --
\* addOrUpdateHolding, removeHolding, a refresh starting, the estimates of a
\* refresh arriving in any interleaving -- keeps the two lists at the same
\* codes; an estimate that arrives for a holding removed meanwhile adds
\* nothing back.
C30_SameCodes ==
    /\ [](/\ CodesOf(InitHoldingsCall(HoldingWorld).holdings) = CodesOf(fundHoldings)
          /\ EachOnce(CodesOf(fundHoldings))
          /\ EachOnce(CodesOf(holdings)))
    /\ [][CodesAgree => CodesAgree']_vars

\* the estimates of a refresh started for c1 and c2 have arrived after c1 was
\* removed: the two lists hold c2 alone
C30_Witness ==
    /\ CodesAgree
    /\ CodesOf(holdings) = <<"c2">>
    /\ refreshes = << >>
    /\ applied["c2"].has
    /\ ~applied["c1"].has
    /\ ~holdings[1].loading

\* a holding was updated in place while another stood behind it
C30_WitnessUpdated ==
    /\ CodesAgree
    /\ CodesOf(holdings) = <<"c1", "c2">>
    /\ holdings[1].buyNetValue > 0
    /\ holdings[1].shareClass = "C"

(***************************************************************************)
(* The transaction log (views/Transactions.vue): it is loaded from         *)
(* localStorage when the page is mounted, seeded from the holdings in      *)
(* memory when it is empty, and changed by deleting a record.              *)
(***************************************************************************)
MaxLoads == 3

\* the buy record loadTransactions builds from a holding (the id is
\* `buy_${code}_${createdAt}`; createdAt is not modelled)
BuyRecordOf(h) ==
    [id |-> <<"buy", h.code>>, code |-> h.code, type |-> "buy", amount |-> h.amount,
     shares |-> h.shares, netValue |-> h.buyNetValue, fee |-> h.buyFeeAmount]

\* the state loadTransactions and deleteTransaction read and write
TxWorld == [transactions |-> transactions, fundTransactions |-> fundTransactions,
            loads |-> loads, seedings |-> seedings]

CommitTransactions(w) ==
    /\ transactions' = w.transactions
    /\ fundTransactions' = w.fundTransactions
    /\ loads' = w.loads
    /\ seedings' = w.seedings

\* saveTransactions
SaveTransactions(w) == [w EXCEPT !.fundTransactions = Hit(w.transactions)]

\* loadTransactions, run by onMounted on the fresh component (transactions.value
\* is []); hs is holdingStore.holdings
LoadTransactionsCall(w, hs) ==
    LET stored == w.fundTransactions
        w1 == [w EXCEPT !.transactions = IF stored.has THEN stored.data ELSE << >>,
                        !.loads = @ + 1]
    IN  IF Len(w1.transactions) = 0
        THEN SaveTransactions(
                 [w1 EXCEPT !.transactions = [i \in 1..Len(hs) |-> BuyRecordOf(hs[i])],
                            !.seedings = IF Len(hs) > 0 THEN @ + 1 ELSE @])
        ELSE w1

\* deleteTransaction, the user confirming
DeleteTransactionCall(w, id) ==
    SaveTransactions([w EXCEPT !.transactions = SelectSeq(@, LAMBDA t : t.id # id)])

(***************************************************************************)
(* Specification of the transaction log: the page is mounted up to         *)
(* MaxLoads times, records are deleted, and the holdings change through    *)
(* the form, removals and estimate refreshes.                              *)
(***************************************************************************)
\* what the form holds when it is submitted: one purchase for each fund
TxFormInputs ==
    { FormInput("c1", "A", 200000, 1000, TRUE, 0, 40, 0),
      FormInput("c2", "C", 200000, 1000, FALSE, 0, 40, 2) }

\* the estimate a request delivers, or nothing when it fails
TxEstimateData == { [has |-> TRUE, gsz |-> 2000, dwjz |-> 1000], NoEstimateApplied }

txFrame == <<clockVars, storeVars, cacheOpVars, periodVars, feeVars, limiterVars,
             req, jsonpVars, chartVars, tradingOut, detailTick, pageVars>>

InitTransactions ==
    /\ now = 0
    /\ ticks = 0
    /\ EnvIdle
    /\ cache = EmptyCache
    /\ persist = EmptyStore
    /\ CacheOpsIdle /\ PeriodIdle /\ FeeIdle /\ LimiterIdle /\ ReqsIdle /\ JsonpIdle
    /\ ChartIdle /\ tradingOut = NotAsked /\ detailTick = NoTick
    /\ holdings = << >>
    /\ fundHoldings \in StoredAtStart
    /\ refreshes = << >>
    /\ applied = [c \in Codes |-> NoEstimateApplied]
    /\ TransactionsIdle /\ PagesIdle

\* the transactions page is mounted
LoadTransactions ==
    /\ loads < MaxLoads
    /\ CommitTransactions(LoadTransactionsCall(TxWorld, holdings))
    /\ UNCHANGED <<holdingVars, txFrame>>

\* the user deletes a record of the log
DeleteTransaction ==
    \E i \in 1..Len(transactions) :
        /\ CommitTransactions(DeleteTransactionCall(TxWorld, transactions[i].id))
        /\ UNCHANGED <<holdingVars, txFrame>>

TxInitHoldings ==
    /\ Len(refreshes) < MaxRefreshes
    /\ CommitHoldings(InitHoldingsCall(HoldingWorld))
    /\ UNCHANGED <<txVars, txFrame>>

TxSubmitForm ==
    \E f \in TxFormInputs :
        /\ Len(refreshes) < MaxRefreshes
        /\ CommitHoldings(AddOrUpdateHoldingCall(HoldingWorld, FormRecord(f)))
        /\ UNCHANGED <<txVars, txFrame>>

TxRemoveHolding ==
    \E code \in Codes :
        /\ FindIndex(holdings, code) > 0
        /\ CommitHoldings(RemoveHoldingCall(HoldingWorld, code))
        /\ UNCHANGED <<txVars, txFrame>>

TxRefreshSettles ==
    \E k \in 1..Len(refreshes) :
        \E results \in [1..Len(refreshes[k]) -> TxEstimateData] :
            /\ CommitHoldings(RefreshEstimatesResume(HoldingWorld, k, results))
            /\ UNCHANGED <<txVars, txFrame>>

NextTransactions ==
    \/ LoadTransactions
    \/ DeleteTransaction
    \/ TxInitHoldings
    \/ TxSubmitForm
    \/ TxRemoveHolding
    \/ TxRefreshSettles

SpecTransactions == InitTransactions /\ [][NextTransactions]_vars

\* C19 as stated: the log is seeded from the holdings once: over any sequence
\* of loadTransactions, deleteTransaction and holding changes, at most one
\* loadTransactions call inserts records built from holdings (so that, once
\* seeded, the log changes only by the user's deletions).
C19_AsStated == seedings <= 1

\* the log has been seeded, the user has deleted its records, and the next
\* loadTransactions has inserted the buy records of the holdings again
C19_SeededTwice ==
    /\ seedings = 2
    /\ Len(transactions) > 0
    /\ fundTransactions = Hit(transactions)
    /\ \A i \in 1..Len(transactions) :
           \E j \in 1..Len(holdings) : transactions[i] = BuyRecordOf(holdings[j])

\* what loadTransactions guarantees: it inserts records only when the stored
\* log is empty or absent, and a log that holds a record is changed only by
\* deleteTransaction
C19_SeedsOnlyWhenEmpty ==
    [][/\ seedings' # seedings =>
              (~fundTransactions.has \/ fundTransactions.data = << >>)
       /\ (fundTransactions.has /\ fundTransactions.data # << >>
              /\ fundTransactions' # fundTransactions) =>
              \E i \in 1..Len(transactions) :
                  fundTransactions' =
                      Hit(SelectSeq(transactions,
                                    LAMBDA t : t.id # transactions[i].id))]_vars

(***************************************************************************)
(* The chart (components/OKXChart.vue): the series filteredData builds     *)
(* from the history, the selected period and the live estimate, and the    *)
(* series drawChart reads.  Values are in thousandths, changes and volumes *)
(* in hundredths; a point's time is its day.                               *)
(***************************************************************************)
ChartPeriods == <<
    [key |-> "1d", days |-> 0],
    [key |-> "5d", days |-> 5],
    [key |-> "1m", days |-> 30],
    [key |-> "3m", days |-> 90],
    [key |-> "6m", days |-> 180],
    [key |-> "1y", days |-> 365] >>

ChartKeys == {ChartPeriods[k].key : k \in 1..Len(ChartPeriods)}

\* periods.find(p => p.key === currentPeriod)
PeriodOf(key) == CHOOSE p \in {ChartPeriods[k] : k \in 1..Len(ChartPeriods)} : p.key = key

\* the local time zone is 8 hours ahead of UTC
LocalOffset == 8 * (DayUnits \div 24)

\* `${now.getFullYear()}-..-${now.getDate()}`: the local day of an instant
LocalDay(at) == (at + LocalOffset) \div DayUnits

\* chartData.filter(item => new Date(item.time) >= start).map((item, i) =>
\* ({...item, volume: 50 + Math.abs(item.change) * 30 + (i % 5) * 10}))
Since(data, start) ==
    LET kept == SelectSeq(data, LAMBDA item : DateInstant(item.time) >= start)
    IN  [i \in 1..Len(kept) |->
            [time |-> kept[i].time, value |-> kept[i].value, change |-> kept[i].change,
             volume |-> 5000 + Abs(kept[i].change) * 30 + ((i - 1) % 5) * 1000]]

\* data.some(d => d.time === today)
HasTodayData(data, today) == \E i \in 1..Len(data) : data[i].time = today

\* a variant that appends the live point whether or not today has a point
WithLivePointAppended(data, today, props) ==
    IF props.realtimeValue > 0
    THEN Append(data, [time |-> today, value |-> props.realtimeValue,
                       change |-> props.realtimeChange, volume |-> 10000])
    ELSE data

\* the live/current-day branch: today's point is appended or overwritten
WithLivePoint(data, today, props) ==
    IF ~HasTodayData(data, today) /\ props.realtimeValue > 0
    THEN Append(data, [time |-> today, value |-> props.realtimeValue,
                       change |-> props.realtimeChange, volume |-> 10000])
    ELSE IF HasTodayData(data, today) /\ props.realtimeValue > 0
    THEN [i \in 1..Len(data) |->
             IF data[i].time = today
             THEN [data[i] EXCEPT !.value = props.realtimeValue,
                                  !.change = props.realtimeChange]
             ELSE data[i]]
    ELSE data

\* props.lastClose || props.realtimeValue || 1
PlaceholderValue(props) ==
    IF props.lastClose # 0 THEN props.lastClose
    ELSE IF props.realtimeValue # 0 THEN props.realtimeValue
    ELSE 1000

\* a variant that leaves the history of the other periods as it is
WithoutLivePoint(data, today, props) == data

\* the other periods: the last point is replaced when it is today's, the live
\* point is appended otherwise
WithLiveLast(data, today, props) ==
    IF props.realtimeValue > 0 /\ Len(data) > 0
    THEN LET lastItem == data[Len(data)]
         IN  IF lastItem.time = today
             THEN Append(SliceFirst(data, Len(data) - 1),
                         [lastItem EXCEPT !.value = props.realtimeValue,
                                          !.change = props.realtimeChange])
             ELSE Append(data, [time |-> today, value |-> props.realtimeValue,
                                change |-> props.realtimeChange,
                                volume |-> 5000 + Abs(props.realtimeChange) * 30])
    ELSE data

\* filteredData
FilteredData(key, data, props, at) ==
    LET today == LocalDay(at)
    IN  IF key = "1d"
        THEN LET live == WithLivePoint(Since(data, at - 2 * DayUnits), today, props)
             IN  IF Len(live) = 0
                 THEN << [time |-> today, value |-> PlaceholderValue(props),
                          change |-> 0, volume |-> 5000] >>
                 ELSE live
        ELSE LET period == PeriodOf(key)
                 days == IF period.days = 0 THEN 5 ELSE period.days
             IN  WithLiveLast(Since(data, at - days * DayUnits), today, props)

\* drawChart: it reads filteredData and returns when the series is empty
DrawChart(key, data, props, at) ==
    LET series == FilteredData(key, data, props, at)
    IN  [called |-> TRUE, data |-> series, painted |-> Len(series) > 0]

(***************************************************************************)
(* Specification of the chart: histories of at most MaxPoints points are   *)
(* loaded, periods are selected and the live estimate changes; every       *)
(* animation frame draws.                                                  *)
(***************************************************************************)
MaxPoints == 3

ChartDays == {Today - 40, Today - 2, Today - 1, Today}

\* a history point: the net value and change of a day
ChartPoint(day) == [time |-> day, value |-> 1000 + (day - Today + 40),
                    change |-> IF day = Today THEN -50 ELSE 120]

\* the histories fetchSimpleKLineData can deliver: one point a day, oldest first
Klines ==
    { k \in UNION {[1..n -> {ChartPoint(d) : d \in ChartDays}] : n \in 0..MaxPoints} :
        \A i \in 1..(Len(k) - 1) : k[i].time < k[i + 1].time }

\* the props the detail page passes: no estimate yet, or a live estimate
ChartPropsValues ==
    { [realtimeValue |-> v, realtimeChange |-> IF v > 0 THEN 150 ELSE 0, lastClose |-> c] :
        v \in {0, 1050}, c \in {0, 1030} }

\* local 07:00 and local 14:00 of Today
ChartInstants == {DateInstant(Today) - DayUnits \div 24, DateInstant(Today) + DayUnits \div 4}

chartFrame == <<ticks, wall, isNativeApp, storeVars, cacheOpVars, periodVars, feeVars,
                limiterVars, req, jsonpVars, holdingVars, tradingOut, detailTick, txVars, pageVars>>

InitChart ==
    /\ now \in ChartInstants
    /\ ticks = 0
    /\ EnvIdle
    /\ cache = EmptyCache
    /\ persist = EmptyStore
    /\ CacheOpsIdle /\ PeriodIdle /\ FeeIdle /\ LimiterIdle /\ ReqsIdle /\ JsonpIdle
    /\ HoldingsIdle /\ tradingOut = NotAsked /\ detailTick = NoTick /\ TransactionsIdle /\ PagesIdle
    /\ chartData = << >>
    /\ activePeriod = "5d"
    /\ chartProps \in ChartPropsValues
    /\ chartDrawn = NotDrawn

\* loadData: the history arrives and the chart is drawn
LoadData ==
    \E kline \in Klines :
        /\ chartData' = kline
        /\ chartDrawn' = DrawChart(activePeriod, kline, chartProps, now)
        /\ UNCHANGED <<now, activePeriod, chartProps>>
        /\ UNCHANGED chartFrame

\* selectPeriod: the period changes and the chart is drawn
SelectPeriod ==
    \E key \in ChartKeys :
        /\ activePeriod' = key
        /\ chartDrawn' = DrawChart(key, chartData, chartProps, now)
        /\ UNCHANGED <<now, chartData, chartProps>>
        /\ UNCHANGED chartFrame

\* the page passes new props
PropsChange ==
    \E props \in ChartPropsValues :
        /\ chartProps' = props
        /\ UNCHANGED <<now, chartData, activePeriod, chartDrawn>>
        /\ UNCHANGED chartFrame

\* an animation frame draws the chart
AnimationFrame ==
    /\ chartDrawn' = DrawChart(activePeriod, chartData, chartProps, now)
    /\ UNCHANGED <<now, chartData, activePeriod, chartProps>>
    /\ UNCHANGED chartFrame

NextChart == LoadData \/ SelectPeriod \/ PropsChange \/ AnimationFrame

SpecChart == InitChart /\ [][NextChart]_vars

(***************************************************************************)
(* Claims about the chart.                                                 *)
(***************************************************************************)
\* the series filteredData holds in the current state
Series == FilteredData(activePeriod, chartData, chartProps, now)

\* the positions of a series dated today
DatedToday(series) == { i \in 1..Len(series) : series[i].time = LocalDay(now) }

\* the last drawChart read the series of the current state
DrawnNow == chartDrawn.called /\ chartDrawn.data = Series

\* C14: with the current-day period selected and a positive live estimate, the
\* series filteredData builds holds exactly one point dated today and its
\* value is the live estimate; when the history has a point dated today that
\* point is overwritten (the series is no longer than the history), otherwise
\* one point is appended; every point dated other than today has the value the
\* history gives that day.
C14_OneLivePoint ==
    (activePeriod = "1d" /\ chartProps.realtimeValue > 0) =>
        /\ Cardinality(DatedToday(Series)) = 1
        /\ \A i \in DatedToday(Series) : Series[i].value = chartProps.realtimeValue
        /\ Len(Series) = Len(Since(chartData, now - 2 * DayUnits))
                         + (IF DatedToday(chartData) = {} THEN 1 ELSE 0)
        /\ \A i \in (1..Len(Series)) \ DatedToday(Series) :
               \E j \in 1..Len(chartData) :
                   /\ chartData[j].time = Series[i].time
                   /\ chartData[j].value = Series[i].value

\* the current-day series has been drawn with today's point of the history
\* overwritten by the live estimate, next to an older point that kept its value
C14_Witness ==
    /\ activePeriod = "1d"
    /\ chartProps.realtimeValue > 0
    /\ DrawnNow
    /\ chartDrawn.painted
    /\ \E j \in DatedToday(chartData) : chartData[j].value # chartProps.realtimeValue
    /\ Len(Series) >= 2

\* the current-day series has been drawn with a point appended for today
C14_WitnessAppended ==
    /\ activePeriod = "1d"
    /\ chartProps.realtimeValue > 0
    /\ DrawnNow
    /\ DatedToday(chartData) = {}
    /\ Len(chartData) > 0
    /\ Len(Series) >= 2

\* C15 as stated: for every period and all inputs, the series drawChart reads
\* from filteredData is never empty, and when the history is empty it is a
\* single point at lastClose or at realtimeValue.
C15_AsStated ==
    chartDrawn.called =>
        /\ Len(chartDrawn.data) > 0
        /\ (DrawnNow /\ chartData = << >>) =>
               /\ Len(chartDrawn.data) = 1
               /\ chartDrawn.data[1].value \in {chartProps.lastClose, chartProps.realtimeValue}

\* with a period other than the current day selected and an empty history,
\* drawChart has read an empty series and has drawn nothing
C15_EmptySeries ==
    /\ activePeriod # "1d"
    /\ chartData = << >>
    /\ chartProps.realtimeValue > 0
    /\ DrawnNow
    /\ chartDrawn.data = << >>
    /\ ~chartDrawn.painted

\* what holds for the current-day period only: an empty history gives a single
\* point, at the live estimate when it is positive, else at lastClose, else at 1
C15_PlaceholderForCurrentDay ==
    (activePeriod = "1d" /\ chartData = << >>) =>
        /\ Len(Series) = 1
        /\ Series[1].value =
               IF chartProps.realtimeValue > 0 THEN chartProps.realtimeValue
               ELSE IF chartProps.lastClose > 0 THEN chartProps.lastClose
               ELSE 1000

\* the history a period other than the current day shows: the points of the
\* last `days` days
Windowed ==
    LET period == PeriodOf(activePeriod)
    IN  Since(chartData, now - (IF period.days = 0 THEN 5 ELSE period.days) * DayUnits)

\* C21 as stated: for every period other than the current-day one, the series
\* filteredData builds consists of historical points only: no point is
\* overwritten with the live estimate and none is appended from it.
C21_AsStated ==
    activePeriod # "1d" => Series = Windowed

\* C21: for a period other than the current-day one the live estimate is
\* merged too, whenever it is positive and the period's history is not empty:
\* the last point is overwritten with it when that point is dated today,
\* otherwise a point for today is appended, and every other point is the
\* history's; with no positive estimate or an empty history the series is the
\* history alone.
C21_LiveMergedInEveryPeriod ==
    activePeriod # "1d" =>
        IF chartProps.realtimeValue > 0 /\ Len(Windowed) > 0
        THEN /\ Len(Series) = Len(Windowed)
                    + (IF Windowed[Len(Windowed)].time = LocalDay(now) THEN 0 ELSE 1)
             /\ Series[Len(Series)].time = LocalDay(now)
             /\ Series[Len(Series)].value = chartProps.realtimeValue
             /\ Series[Len(Series)].change = chartProps.realtimeChange
             /\ \A i \in 1..(Len(Series) - 1) : Series[i] = Windowed[i]
        ELSE Series = Windowed

\* a period other than the current day has been drawn with the history's
\* point of today overwritten by the live estimate
C21_Witness ==
    /\ activePeriod # "1d"
    /\ chartProps.realtimeValue > 0
    /\ DrawnNow
    /\ Len(Windowed) >= 2
    /\ Windowed[Len(Windowed)].time = LocalDay(now)
    /\ Len(Series) = Len(Windowed)
    /\ Series[Len(Series)].value # Windowed[Len(Windowed)].value

\* a period other than the current day has been drawn with a point for today
\* appended from the live estimate
C21_WitnessAppended ==
    /\ activePeriod = "1m"
    /\ chartProps.realtimeValue > 0
    /\ DrawnNow
    /\ Len(Windowed) > 0
    /\ Windowed[Len(Windowed)].time # LocalDay(now)
    /\ Len(Series) = Len(Windowed) + 1

(***************************************************************************)
(* Specification of isTradingTime (api/tiantianApi.ts): it is called at    *)
(* any wall clock, whatever the store and the platform are.                *)
(***************************************************************************)
\* getDay() (0 is Sunday), getHours() and getMinutes() of the wall clock
WallDays == 0..6
WallHours == {8, 9, 14, 15, 16}
WallMinutes == {0, 29, 30, 59}
WallClocks == [day : WallDays, hour : WallHours, minute : WallMinutes]

clockFrame == <<now, ticks, cache, cacheOpVars, periodVars, feeVars, limiterVars,
                req, jsonpVars, holdingVars, chartVars, detailTick, txVars, pageVars>>

InitClock ==
    /\ now = 0
    /\ ticks = 0
    /\ wall \in WallClocks
    /\ isNativeApp \in BOOLEAN
    /\ cache = EmptyCache
    /\ persist = EmptyStore
    /\ CacheOpsIdle /\ PeriodIdle /\ FeeIdle /\ LimiterIdle /\ ReqsIdle /\ JsonpIdle
    /\ HoldingsIdle /\ ChartIdle /\ detailTick = NoTick /\ TransactionsIdle /\ PagesIdle
    /\ tradingOut = NotAsked

\* a call of isTradingTime()
CallIsTradingTime ==
    /\ tradingOut' = [called |-> TRUE, wall |-> wall, result |-> IsTradingTime]
    /\ UNCHANGED <<wall, isNativeApp, persist>>
    /\ UNCHANGED clockFrame

\* the minute of the week a wall clock shows
MinuteOfWeek(w) == (w.day * 24 + w.hour) * 60 + w.minute

\* the next of the wall clocks after w, the first of the week after the last
NextWallClock(w) ==
    LET later == { v \in WallClocks : MinuteOfWeek(v) > MinuteOfWeek(w) }
        from == IF later = {} THEN WallClocks ELSE later
    IN  CHOOSE v \in from : \A u \in from : MinuteOfWeek(v) <= MinuteOfWeek(u)

\* time passes: the wall clock shows the next time
WallChanges ==
    /\ wall' = NextWallClock(wall)
    /\ UNCHANGED <<isNativeApp, persist, tradingOut>>
    /\ UNCHANGED clockFrame

\* an estimate is persisted or removed (localStorage changes)
StorageChanges ==
    \E v \in {Miss, Hit(OldEstimate("c1"))} :
        /\ persist' = [persist EXCEPT ![EstimateKey("c1")] = v]
        /\ UNCHANGED <<wall, isNativeApp, tradingOut>>
        /\ UNCHANGED clockFrame

NextClock == CallIsTradingTime \/ WallChanges \/ StorageChanges

SpecClock == InitClock /\ [][NextClock]_vars

\* the minute of the day a wall clock shows
MinuteOfDay(w) == w.hour * 60 + w.minute

\* C17: isTradingTime() returns true exactly when the local wall clock shows
\* Monday to Friday and a time of day from 9:30 up to, and not including,
\* 15:00; the result is a function of the wall clock's day of week and time of
\* day alone, whatever is stored and whatever the platform.
C17_WeekdayWindow ==
    tradingOut.called =>
        (tradingOut.result <=>
            /\ tradingOut.wall.day \in 1..5
            /\ MinuteOfDay(tradingOut.wall) >= 9 * 60 + 30
            /\ MinuteOfDay(tradingOut.wall) < 15 * 60)

\* isTradingTime has answered true at 14:59 on a Friday with an estimate
\* persisted
C17_Witness ==
    /\ tradingOut.called
    /\ tradingOut.result
    /\ tradingOut.wall = [day |-> 5, hour |-> 14, minute |-> 59]
    /\ \E c \in Codes : persist[EstimateKey(c)].has

\* isTradingTime has answered false at 15:00 on a weekday
C17_WitnessClose ==
    /\ tradingOut.called
    /\ ~tradingOut.result
    /\ tradingOut.wall = [day |-> 3, hour |-> 15, minute |-> 0]

(***************************************************************************)
(* The detail view (views/Detail.vue, views/FundDetail.vue): every 3 s its *)
(* polling timer fires and, inside its own time window, calls              *)
(* refreshEstimate, which calls fetchFundEstimateFast for the fund shown.  *)
(***************************************************************************)
\* the guards of the interval callback: true when it goes on to refresh
PollsAt(w) ==
    /\ ~(w.day = 0 \/ w.day = 6)
    /\ ~(w.hour < 9 \/ w.hour > 15)
    /\ ~(w.hour = 9 /\ w.minute < 30)

\* the fund the detail view shows
DetailCode == "c1"

\* the interval callback, as call r of fetchFundEstimateFast when it refreshes
AutoRefreshTick(r) ==
    IF PollsAt(wall)
    THEN /\ NextToCall(r)
         /\ Commit(FetchFundEstimateFastCall(World, r, DetailCode))
         /\ detailTick' = [fired |-> TRUE, wall |-> wall, refreshed |-> TRUE, call |-> r]
    ELSE /\ r = 1
         /\ detailTick' = [fired |-> TRUE, wall |-> wall, refreshed |-> FALSE, call |-> 0]
         /\ UNCHANGED <<storeVars, limiterVars, req, jsonpVars>>

(***************************************************************************)
(* Specification of the detail view's polling: the timer fires, responses  *)
(* arrive or fail, and time passes, at a wall clock inside or outside the  *)
(* trading hours.                                                          *)
(***************************************************************************)
DetailWalls ==
    { [day |-> d, hour |-> h, minute |-> mi] :
        d \in {1, 6}, h \in {8, 9, 14, 15, 16}, mi \in {0, 30} }

detailFrame == <<cacheOpVars, periodVars, feeVars, holdingVars, chartVars, tradingOut,
                 txVars, pageVars>>

InitDetail ==
    /\ now = 0
    /\ ticks = 0
    /\ wall \in DetailWalls
    /\ isNativeApp = FALSE
    /\ cache = EmptyCache
    /\ \E old \in {{}, {DetailCode}} :
          persist = [k \in PersistKeys |->
                        IF \E c \in old : k = EstimateKey(c)
                        THEN Hit(OldEstimate(DetailCode))
                        ELSE Miss]
    /\ CacheOpsIdle /\ PeriodIdle /\ FeeIdle /\ LimiterIdle /\ ReqsIdle /\ JsonpIdle
    /\ HoldingsIdle /\ ChartIdle /\ tradingOut = NotAsked /\ TransactionsIdle /\ PagesIdle
    /\ detailTick = NoTick

DetailTimerFires ==
    \E r \in EstReqs :
        AutoRefreshTick(r) /\ UNCHANGED <<clockVars, detailFrame>>
DetailResponse ==
    \E r \in EstReqs : \E data \in Responses(req[r].code) :
        ScriptRuns(r, data) /\ UNCHANGED <<clockVars, detailFrame, detailTick>>
DetailLoadError ==
    \E r \in EstReqs : ScriptError(r) /\ UNCHANGED <<clockVars, detailFrame, detailTick>>
DetailTimeout ==
    \E r \in EstReqs : Timeout(r) /\ UNCHANGED <<clockVars, detailFrame, detailTick>>
DetailTimePasses ==
    \E d \in EstimateSteps :
        /\ NoTimerDue
        /\ Tick(d)
        /\ UNCHANGED <<envVars, storeVars, limiterVars, req, jsonpVars, detailFrame,
                       detailTick>>

NextDetail ==
    \/ DetailTimerFires
    \/ DetailResponse
    \/ DetailLoadError
    \/ DetailTimeout
    \/ DetailTimePasses

SpecDetail == InitDetail /\ [][NextDetail]_vars

\* the window of isTradingTime at a wall clock
TradingWindow(w) ==
    /\ w.day \in 1..5
    /\ MinuteOfDay(w) >= 9 * 60 + 30
    /\ MinuteOfDay(w) < 15 * 60

\* the last tick issued a request: its call of fetchFundEstimateFast appended
\* a script
IssuedRequest ==
    /\ detailTick.call # 0
    /\ req[detailTick.call].script # "none"

\* C18 as stated: a polling tick of the detail view that fires outside the
\* window of isTradingTime (a weekday, 9:30 up to 15:00) calls no refresh and
\* issues no request.
C18_AsStated ==
    (detailTick.fired /\ ~TradingWindow(detailTick.wall)) =>
        /\ ~detailTick.refreshed
        /\ ~IssuedRequest

\* a tick at 15:30 on a Monday has called refreshEstimate, and with no
\* estimate persisted its call of fetchFundEstimateFast has issued a request
C18_RequestAfterClose ==
    /\ detailTick.fired
    /\ detailTick.wall = [day |-> 1, hour |-> 15, minute |-> 30]
    /\ detailTick.refreshed
    /\ IssuedRequest

\* what the tick guarantees: outside a weekday's 9:30 up to 16:00 it calls no
\* refresh and issues no request
C18_QuietOutsideOwnWindow ==
    (detailTick.fired /\ ~(/\ detailTick.wall.day \in 1..5
                           /\ MinuteOfDay(detailTick.wall) >= 9 * 60 + 30
                           /\ MinuteOfDay(detailTick.wall) < 16 * 60)) =>
        /\ ~detailTick.refreshed
        /\ ~IssuedRequest

(***************************************************************************)
(* The life of the detail page (views/Detail.vue) and of the chart it      *)
(* holds (components/OKXChart.vue): mounting, route changes, the refresh   *)
(* interval, unmounting, and the responses that arrive in between.  An     *)
(* awaited request is a record [by, code, mount]: by is "load"             *)
(* (loadFundData), "tick" (refreshEstimate) or "chart" (loadData); mount   *)
(* tells the loadFundData that onMounted awaits.                           *)
(***************************************************************************)
MaxInflight == 3

Awaited(by, code, mount) == [by |-> by, code |-> code, mount |-> mount]

\* the state the handlers of the page and of the chart read and write
PageWorld == [detail |-> detail, intervals |-> intervals, inflight |-> inflight,
              chartShown |-> chartShown, polls |-> pollsAfterUnmount]

CommitPage(w) ==
    /\ detail' = w.detail
    /\ intervals' = w.intervals
    /\ inflight' = w.inflight
    /\ chartShown' = w.chartShown
    /\ pollsAfterUnmount' = w.polls

\* loadFundData up to its first await: fetchFundEstimateFast(fundCode.value)
LoadFundDataCall(w, mount) ==
    [w EXCEPT !.inflight = Append(@, Awaited("load", w.detail.fundCode, mount))]

\* the chart's watch of props.fundCode: resetIntradayData, then loadData up to
\* its await; chartData is left as it is
ChartLoadDataCall(w) ==
    [w EXCEPT !.inflight = Append(@, Awaited("chart", w.detail.fundCode, FALSE))]

\* setInterval: the timer id is the first one not in use
SetInterval(w) ==
    LET id == CHOOSE n \in 1..(Cardinality(w.intervals) + 1) : n \notin w.intervals
    IN  [w EXCEPT !.intervals = @ \cup {id}, !.detail.refreshTimer = id]

\* startAutoRefresh
StartAutoRefresh(w) == SetInterval(w)

\* stopAutoRefresh
StopAutoRefresh(w) ==
    IF w.detail.refreshTimer # 0
    THEN [w EXCEPT !.intervals = @ \ {w.detail.refreshTimer}, !.detail.refreshTimer = 0]
    ELSE w

\* onMounted up to its await (holdingStore.initHoldings is a step of the
\* holdings store), with the chart mounted inside the page
OnMountedCall(w) ==
    ChartLoadDataCall(LoadFundDataCall([w EXCEPT !.detail.mounted = "yes"], TRUE))

\* the route parameter changes: watch(fundCode) of the page up to its await,
\* and the chart's watch
WatchFundCode(w, newCode) ==
    IF newCode # w.detail.fundCode
    THEN ChartLoadDataCall(
             LoadFundDataCall([w EXCEPT !.detail.fundCode = newCode,
                                        !.detail.fundInfo = Miss], FALSE))
    ELSE w

\* onUnmounted
OnUnmounted(w) == StopAutoRefresh([w EXCEPT !.detail.mounted = "gone"])

\* the callback of the refresh interval, on a trading day within its hours:
\* refreshEstimate up to its await
IntervalCallback(w) ==
    [w EXCEPT !.inflight = Append(@, Awaited("tick", w.detail.fundCode, FALSE)),
              !.polls = @ \/ w.detail.mounted = "gone"]

\* loadFundData after the estimate has arrived (null: the lookup by name gives
\* a placeholder for the code of the route), and onMounted's continuation
LoadFundDataResume(w, q, estimate) ==
    LET w1 == [w EXCEPT !.detail.fundInfo =
                   IF estimate.has THEN estimate
                   ELSE Hit([fundcode |-> w.detail.fundCode])]
    IN  IF q.mount THEN StartAutoRefresh(w1) ELSE w1

\* refreshEstimate after its await
RefreshEstimateResume(w, q, estimate) ==
    IF estimate.has THEN [w EXCEPT !.detail.fundInfo = estimate] ELSE w

\* loadData after its await: chartData.value = kline, or the catch block
ChartLoadDataResume(w, q, ok) ==
    IF ok THEN [w EXCEPT !.chartShown = [has |-> TRUE, code |-> q.code]] ELSE w

\* the request at position i of the awaited ones settles
Settle(w, i, ok) ==
    LET q == w.inflight[i]
        estimate == IF ok THEN Hit([fundcode |-> q.code]) ELSE Miss
        w1 == [w EXCEPT !.inflight = RemoveAt(@, i)]
    IN  IF q.by = "load" THEN LoadFundDataResume(w1, q, estimate)
        ELSE IF q.by = "tick" THEN RefreshEstimateResume(w1, q, estimate)
        ELSE ChartLoadDataResume(w1, q, ok)

(***************************************************************************)
(* Specification of the page's life: it is mounted once for fund c1, the   *)
(* route changes between two funds, the interval fires, requests settle in *)
(* any order, and the page is unmounted at any moment.                     *)
(***************************************************************************)
pageFrame == <<clockVars, storeVars, cacheOpVars, periodVars, feeVars, limiterVars, req,
               jsonpVars, chartVars, tradingOut, detailTick, txVars, annVars, watchVars>>

InitPage ==
    /\ now = 0
    /\ ticks = 0
    /\ EnvIdle
    /\ cache = EmptyCache
    /\ persist = EmptyStore
    /\ CacheOpsIdle /\ PeriodIdle /\ FeeIdle /\ LimiterIdle /\ ReqsIdle /\ JsonpIdle
    /\ HoldingsIdle /\ ChartIdle /\ tradingOut = NotAsked /\ detailTick = NoTick
    /\ TransactionsIdle /\ AnnouncementsIdle /\ WatchlistIdle
    /\ LifeIdle

PageMounts ==
    /\ detail.mounted = "no"
    /\ CommitHoldings(InitHoldingsCall(HoldingWorld))
    /\ CommitPage(OnMountedCall(PageWorld))
    /\ UNCHANGED pageFrame

RouteChanges ==
    \E newCode \in Codes :
        /\ detail.mounted = "yes"
        /\ newCode # detail.fundCode
        /\ Len(inflight) + 2 <= MaxInflight
        /\ CommitPage(WatchFundCode(PageWorld, newCode))
        /\ UNCHANGED <<holdingVars, pageFrame>>

PageUnmounts ==
    /\ detail.mounted = "yes"
    /\ CommitPage(OnUnmounted(PageWorld))
    /\ UNCHANGED <<holdingVars, pageFrame>>

IntervalFires ==
    \E id \in intervals :
        /\ Len(inflight) < MaxInflight
        /\ CommitPage(IntervalCallback(PageWorld))
        /\ UNCHANGED <<holdingVars, pageFrame>>

RequestSettles ==
    \E i \in 1..Len(inflight), ok \in BOOLEAN :
        /\ CommitPage(Settle(PageWorld, i, ok))
        /\ UNCHANGED <<holdingVars, pageFrame>>

NextPage ==
    \/ PageMounts \/ RouteChanges \/ PageUnmounts \/ IntervalFires \/ RequestSettles

SpecPage == InitPage /\ [][NextPage]_vars

\* a request issued for another fund than the one displayed settles in this step
StaleSettles ==
    /\ Len(inflight') = Len(inflight) - 1
    /\ \E i \in 1..Len(inflight) :
           /\ inflight' = RemoveAt(inflight, i)
           /\ inflight[i].code # detail.fundCode
    /\ \A i \in 1..Len(inflight) :
           inflight' = RemoveAt(inflight, i) => inflight[i].code # detail.fundCode

\* C27 as stated: after the displayed fund has changed from A to B, a response
\* to a request issued for A that arrives later never overwrites the estimate
\* or the chart data shown for B.
C27_AsStated ==
    [][StaleSettles =>
          /\ Same(detail'.fundInfo, detail.fundInfo)
          /\ chartShown'.has = chartShown.has
          /\ chartShown'.code = chartShown.code]_vars

\* the page displays fund c2 and no request is awaited, yet the estimate shown
\* is the one of c1, which arrived after the route had changed
C27_StaleEstimateShown ==
    /\ detail.mounted = "yes"
    /\ detail.fundCode = "c2"
    /\ detail.fundInfo.has
    /\ detail.fundInfo.data.fundcode = "c1"
    /\ inflight = << >>

\* the page displays fund c1 again and no request is awaited, yet the chart
\* holds the history of c2
C27_StaleChartShown ==
    /\ detail.mounted = "yes"
    /\ detail.fundCode = "c1"
    /\ chartShown.has
    /\ chartShown.code = "c2"
    /\ inflight = << >>

\* C28 as stated: after the detail page is unmounted no polling tick ever runs
\* again, the interval being cleared in every interleaving of mount, initial
\* load and unmount, and at most one refresh interval exists at any time.
C28_AsStated ==
    /\ ~pollsAfterUnmount
    /\ detail.mounted = "gone" => intervals = {}
    /\ Cardinality(intervals) <= 1

\* the page was unmounted while onMounted awaited loadFundData; the interval
\* was started afterwards and its callback has run
C28_TickAfterUnmount ==
    /\ detail.mounted = "gone"
    /\ detail.refreshTimer # 0
    /\ detail.refreshTimer \in intervals
    /\ pollsAfterUnmount

\* what holds: at most one interval exists, onUnmounted clears the interval
\* that was started before it, and an interval exists after the unmount only
\* if it was started after it
C28_ClearedWhenStartedBefore ==
    /\ [](Cardinality(intervals) <= 1)
    /\ [][(detail.mounted = "yes" /\ detail'.mounted = "gone") =>
              /\ intervals' = {}
              /\ detail'.refreshTimer = 0]_vars

(***************************************************************************)
(* fetchPeriodChanges (api/fund.ts): the period changes computed from the  *)
(* net-worth trend of pingzhongdata, or by calculateFromHistory when the   *)
(* script fails to load or times out.                                      *)
(***************************************************************************)
\* d.x: the instant of a trend item, the local midnight of its day
ItemX(item) == DateInstant(item.day) - LocalOffset

\* Data_netWorthTrend.find(d => d.x >= startTime): the index of the first item
\* at or after startTime, 0 when there is none
RECURSIVE FindSinceFrom(_, _, _)
FindSinceFrom(t, startTime, i) ==
    IF i > Len(t) THEN 0
    ELSE IF ItemX(t[i]) >= startTime THEN i
    ELSE FindSinceFrom(t, startTime, i + 1)
FindSince(t, startTime) == FindSinceFrom(t, startTime, 1)

\* the body of periods.forEach for one period: the entries it pushes
ChangesEntry(t, at, p) ==
    LET idx == FindSince(t, at - p.days * DayUnits)
        latestValue == t[Len(t)].y
    IN  IF idx # 0 /\ latestValue > 0
        THEN << [period |-> p.period, days |-> p.days,
                 change |-> HistoryChange(latestValue, t[idx].y)] >>
        ELSE << >>

RECURSIVE ChangesEntries(_, _, _)
ChangesEntries(t, at, k) ==
    IF k > Len(Periods) THEN << >>
    ELSE ChangesEntry(t, at, Periods[k]) \o ChangesEntries(t, at, k + 1)

\* script.onload of fetchPeriodChanges: the result it resolves with
ComputePeriodChanges(t, at) ==
    IF Len(t) > 0 THEN ChangesEntries(t, at, 1) ELSE << >>

\* fetchPeriodChanges(code): the script loads ("load"), or it fails or times
\* out ("fail") and calculateFromHistory answers, its own fetch ending as
\* `fallback` says
FetchPeriodChanges(outcome, fallback) ==
    LET history == IF fallback = "load" THEN LsjzToRecords(trend, HISTORY_PAGE)
                   ELSE << >>
    IN  /\ periodOut' =
               IF outcome = "load"
               THEN [fn |-> "fetchPeriodChanges", fromCache |-> FALSE,
                     hist |-> FullHistory, at |-> now,
                     result |-> ComputePeriodChanges(trend, now)]
               ELSE [fn |-> "fetchPeriodChanges (calculateFromHistory)",
                     fromCache |-> FALSE, hist |-> history, at |-> now,
                     result |-> IF fallback = "fail" THEN << >>
                                ELSE ComputeFromHistory(history, now)]
        /\ UNCHANGED <<cache, trend>>

(***************************************************************************)
(* Specification of fetchPeriodChanges: any trend of at most MaxHist items *)
(* with positive net values, evaluated at instants around Today.           *)
(***************************************************************************)
PositiveTrends == { t \in Trends : \A i \in 1..Len(t) : t[i].y > 0 }

InitChanges ==
    /\ now \in StartInstants
    /\ ticks = 0
    /\ EnvIdle
    /\ cache = EmptyCache
    /\ persist = EmptyStore
    /\ CacheOpsIdle /\ FeeIdle /\ LimiterIdle /\ ReqsIdle /\ JsonpIdle /\ ViewsIdle
    /\ trend \in PositiveTrends
    /\ periodOut = NoCall

CallPeriodChanges ==
    \E o \in {"load", "fail"} : \E f \in {"load", "nodata", "fail"} :
        /\ o = "load" => f = "load"
        /\ FetchPeriodChanges(o, f)
        /\ UNCHANGED clockVars
        /\ UNCHANGED periodFrame

TickChanges ==
    \E d \in PeriodSteps :
        Tick(d) /\ UNCHANGED <<envVars, cache, periodVars>> /\ UNCHANGED periodFrame

NextChanges == CallPeriodChanges \/ TickChanges

SpecChanges == InitChanges /\ [][NextChanges]_vars

\* the trend holds an item at or before (at - w days)
QualifyingItems(at, w) ==
    { i \in 1..Len(trend) : ItemX(trend[i]) <= at - w * DayUnits }

\* the nearest item at or before (at - w days): the last one
NearestItem(at, w) ==
    CHOOSE i \in QualifyingItems(at, w) : \A j \in QualifyingItems(at, w) : j <= i

\* the trend holds an item at or after (at - w days)
LaterItems(at, w) ==
    { i \in 1..Len(trend) : ItemX(trend[i]) >= at - w * DayUnits }

\* the first item at or after (at - w days)
FirstLaterItem(at, w) ==
    CHOOSE i \in LaterItems(at, w) : \A j \in LaterItems(at, w) : i <= j

\* fetchPeriodChanges has answered from the trend
ChangesComputed == periodOut.fn = "fetchPeriodChanges"

\* C20 as stated: every entry fetchPeriodChanges reports for a window w is
\* computed from the nearest net-worth record dated at or before (now - w
\* days), and a window for which the trend holds no record at or before that
\* date has no entry.
C20_AsStated ==
    ChangesComputed =>
        \A w \in Windows :
            /\ QualifyingItems(periodOut.at, w) = {}
                   => EntriesFor(periodOut.result, w) = {}
            /\ \A j \in EntriesFor(periodOut.result, w) :
                   /\ QualifyingItems(periodOut.at, w) # {}
                   /\ RoundedChange(periodOut.result[j].change,
                                    trend[Len(trend)].y,
                                    trend[NearestItem(periodOut.at, w)].y)

\* a trend that begins 7 days ago has been given an entry for the 1-year
\* window, computed from its oldest item
C20_ShortTrendReported ==
    /\ ChangesComputed
    /\ trend = << [day |-> Today - 7, y |-> 1000], [day |-> Today, y |-> 1020] >>
    /\ QualifyingItems(periodOut.at, 365) = {}
    /\ \E j \in EntriesFor(periodOut.result, 365) : periodOut.result[j].change = 200

\* what fetchPeriodChanges computes: a window has an entry exactly when the
\* trend holds an item at or after (now - w days), and the entry is the change
\* from the first such item to the last item of the trend
C20_FirstRecordAtOrAfter ==
    ChangesComputed =>
        \A w \in Windows :
            IF LaterItems(periodOut.at, w) = {}
            THEN EntriesFor(periodOut.result, w) = {}
            ELSE /\ Cardinality(EntriesFor(periodOut.result, w)) = 1
                 /\ \A j \in EntriesFor(periodOut.result, w) :
                        RoundedChange(periodOut.result[j].change,
                                      trend[Len(trend)].y,
                                      trend[FirstLaterItem(periodOut.at, w)].y)

(***************************************************************************)
(* Announcements (the remote configuration module): the ids shown are kept *)
(* in localStorage, getActiveAnnouncements filters the configured          *)
(* announcements by time range and by that record.                         *)
(***************************************************************************)
\* getShownAnnouncementIds: the stored list, [] when nothing is stored
GetShownAnnouncementIds(stored) == IF stored.has THEN stored.data ELSE << >>

\* shownIds.includes(id)
Includes(ids, id) == \E i \in 1..Len(ids) : ids[i] = id

\* now >= startTime && now <= endTime
InTimeRange(announcement, at) ==
    at >= announcement.startTime /\ at <= announcement.endTime

\* getActiveAnnouncements(config) at instant at
GetActiveAnnouncements(stored, config, at) ==
    LET shownIds == GetShownAnnouncementIds(stored)
    IN  SelectSeq(config, LAMBDA announcement :
            /\ InTimeRange(announcement, at)
            /\ ~(announcement.showOnce /\ Includes(shownIds, announcement.id)))

\* a variant that keeps only the id marked last
MarkAnnouncementShownAlone(stored, id) == Hit(<<id>>)

\* markAnnouncementShown(id): the stored list afterwards
MarkAnnouncementShown(stored, id) ==
    LET shownIds == GetShownAnnouncementIds(stored)
    IN  IF ~Includes(shownIds, id) THEN Hit(Append(shownIds, id)) ELSE stored

\* clearShownAnnouncements(): the item is removed
ClearShownAnnouncements(stored) == Miss

(***************************************************************************)
(* Specification of the announcements: one configuration, ids marked and   *)
(* cleared in any order while time passes.                                 *)
(***************************************************************************)
AnnStep == 10

\* the configured announcements: their validity is in the units of now
AnnConfig == <<
    [id |-> "a1", showOnce |-> TRUE,  startTime |-> 0,       endTime |-> 2 * AnnStep],
    [id |-> "a2", showOnce |-> FALSE, startTime |-> 0,       endTime |-> 2 * AnnStep],
    [id |-> "a3", showOnce |-> TRUE,  startTime |-> AnnStep, endTime |-> AnnStep],
    [id |-> "a4", showOnce |-> FALSE, startTime |-> AnnStep, endTime |-> 3 * AnnStep] >>

AnnIds == {AnnConfig[i].id : i \in 1..Len(AnnConfig)}

\* what an earlier session left in the record of shown ids
ShownAtStart == {<< >>, <<"a3">>}

annFrame == <<ticks, wall, isNativeApp, storeVars, cacheOpVars, periodVars, feeVars,
              limiterVars, req, jsonpVars, holdingVars, chartVars, tradingOut, detailTick,
              txVars, watchVars, lifeVars>>

InitAnnouncements ==
    /\ now = 0
    /\ ticks = 0
    /\ EnvIdle
    /\ cache = EmptyCache
    /\ persist = EmptyStore
    /\ CacheOpsIdle /\ PeriodIdle /\ FeeIdle /\ LimiterIdle /\ ReqsIdle /\ JsonpIdle
    /\ HoldingsIdle /\ ChartIdle /\ tradingOut = NotAsked /\ detailTick = NoTick
    /\ TransactionsIdle
    /\ \E ids \in ShownAtStart :
           /\ shownAnnouncements = IF ids = << >> THEN Miss ELSE Hit(ids)
           /\ markedIds = {ids[i] : i \in 1..Len(ids)}
    /\ activeOut = NoActive
    /\ WatchlistIdle /\ LifeIdle

CallGetActiveAnnouncements ==
    /\ activeOut' = [called |-> TRUE, at |-> now, marked |-> markedIds,
                     result |-> GetActiveAnnouncements(shownAnnouncements, AnnConfig, now)]
    /\ UNCHANGED <<now, shownAnnouncements, markedIds, annFrame>>

CallMarkAnnouncementShown ==
    \E id \in AnnIds :
        /\ shownAnnouncements' = MarkAnnouncementShown(shownAnnouncements, id)
        /\ markedIds' = markedIds \cup {id}
        /\ UNCHANGED <<now, activeOut, annFrame>>

CallClearShownAnnouncements ==
    /\ shownAnnouncements' = ClearShownAnnouncements(shownAnnouncements)
    /\ markedIds' = {}
    /\ UNCHANGED <<now, activeOut, annFrame>>

AnnTimePasses ==
    /\ ticks < MaxTicks
    /\ now' = now + AnnStep
    /\ ticks' = ticks + 1
    /\ UNCHANGED <<annVars, wall, isNativeApp, storeVars, cacheOpVars, periodVars, feeVars,
                   limiterVars, req, jsonpVars, holdingVars, chartVars, tradingOut,
                   detailTick, txVars, watchVars, lifeVars>>

NextAnnouncements ==
    \/ CallGetActiveAnnouncements
    \/ CallMarkAnnouncementShown
    \/ CallClearShownAnnouncements
    \/ AnnTimePasses

SpecAnnouncements == InitAnnouncements /\ [][NextAnnouncements]_vars

\* the configured announcements a call at instant at returns when the ids in
\* marked have been marked since the record was last cleared
DueAnnouncements(marked, at) ==
    SelectSeq(AnnConfig, LAMBDA a :
        InTimeRange(a, at) /\ (a.showOnce => a.id \notin marked))

\* C24: after markAnnouncementShown(id), no later call of
\* getActiveAnnouncements returns an announcement with that id and showOnce
\* set, until clearShownAnnouncements is called; an announcement without
\* showOnce is returned whenever the call falls in its time range (and one with
\* showOnce whenever it is in range and not marked since the last clearing).
C24_ShownOnceUntilCleared ==
    activeOut.called => activeOut.result = DueAnnouncements(activeOut.marked, activeOut.at)

\* a1 and a4 were marked, and a later call within the range of both returned
\* a2 and a4, which are not once-only, without a1
C24_Witness ==
    /\ activeOut.called
    /\ {"a1", "a4"} \subseteq activeOut.marked
    /\ activeOut.at = AnnStep
    /\ Len(activeOut.result) >= 2
    /\ \E i \in 1..Len(activeOut.result) : activeOut.result[i].id = "a4"
    /\ ~\E i \in 1..Len(activeOut.result) : activeOut.result[i].id = "a1"

\* the record was cleared after a1 had been marked, and a1 is returned again
C24_WitnessCleared ==
    /\ activeOut.called
    /\ activeOut.marked = {}
    /\ ~shownAnnouncements.has
    /\ activeOut.at > 0
    /\ activeOut.result[1].id = "a1"

(***************************************************************************)
(* The watchlist (the storage module): a list of fund codes in             *)
(* localStorage, changed by addToWatchlist and removeFromWatchlist.        *)
(***************************************************************************)
\* getWatchlist: the stored list, [] when nothing is stored
GetWatchlist(stored) == IF stored.has THEN stored.data ELSE << >>

\* list.indexOf(code), 0 when the code is not in the list
RECURSIVE IndexOfFrom(_, _, _)
IndexOfFrom(list, code, i) ==
    IF i > Len(list) THEN 0
    ELSE IF list[i] = code THEN i
    ELSE IndexOfFrom(list, code, i + 1)
IndexOf(list, code) == IndexOfFrom(list, code, 1)

\* a variant that inserts without looking for the code
AddToWatchlistUnchecked(stored, code) == Hit(<<code>> \o GetWatchlist(stored))

\* addToWatchlist(code): the stored list afterwards
AddToWatchlist(stored, code) ==
    LET list == GetWatchlist(stored)
    IN  IF ~Includes(list, code) THEN Hit(<<code>> \o list) ELSE stored

\* removeFromWatchlist(code): the stored list afterwards
RemoveFromWatchlist(stored, code) ==
    LET list == GetWatchlist(stored)
        index == IndexOf(list, code)
    IN  IF index > 0 THEN Hit(RemoveAt(list, index)) ELSE stored

(***************************************************************************)
(* Specification of the watchlist: codes are added and removed in any      *)
(* order, starting from a duplicate-free list.                             *)
(***************************************************************************)
WatchCodes == {"c1", "c2", "c3", "c4"}

\* what an earlier session left: nothing, or a duplicate-free list
WatchlistsAtStart == {Miss, Hit(<<"c2", "c1">>)}

watchFrame == <<clockVars, storeVars, cacheOpVars, periodVars, feeVars, limiterVars, req,
                jsonpVars, holdingVars, chartVars, tradingOut, detailTick, txVars, annVars, lifeVars>>

InitWatchlist ==
    /\ now = 0
    /\ ticks = 0
    /\ EnvIdle
    /\ cache = EmptyCache
    /\ persist = EmptyStore
    /\ CacheOpsIdle /\ PeriodIdle /\ FeeIdle /\ LimiterIdle /\ ReqsIdle /\ JsonpIdle
    /\ HoldingsIdle /\ ChartIdle /\ tradingOut = NotAsked /\ detailTick = NoTick
    /\ TransactionsIdle /\ AnnouncementsIdle /\ LifeIdle
    /\ watchlist \in WatchlistsAtStart
    /\ watchOp = NoWatchOp

CallAddToWatchlist ==
    \E code \in WatchCodes :
        /\ watchlist' = AddToWatchlist(watchlist, code)
        /\ watchOp' = [op |-> "add", code |-> code, before |-> GetWatchlist(watchlist)]
        /\ UNCHANGED watchFrame

CallRemoveFromWatchlist ==
    \E code \in WatchCodes :
        /\ watchlist' = RemoveFromWatchlist(watchlist, code)
        /\ watchOp' = [op |-> "remove", code |-> code, before |-> GetWatchlist(watchlist)]
        /\ UNCHANGED watchFrame

NextWatchlist == CallAddToWatchlist \/ CallRemoveFromWatchlist

SpecWatchlist == InitWatchlist /\ [][NextWatchlist]_vars

\* the number of positions of a list that hold a code
Occurrences(list, code) == Cardinality({i \in 1..Len(list) : list[i] = code})

\* C25: after any sequence of addToWatchlist and removeFromWatchlist from a
\* duplicate-free watchlist, the persisted watchlist holds each code at most
\* once; adding a code that is present leaves the list as it was, and a code
\* that is not present is inserted at the front, before the codes that were
\* there.
C25_NoDuplicates ==
    LET list == GetWatchlist(watchlist)
    IN  /\ \A code \in WatchCodes : Occurrences(list, code) <= 1
        /\ watchOp.op = "add" =>
               IF Occurrences(watchOp.before, watchOp.code) > 0
               THEN list = watchOp.before
               ELSE list = <<watchOp.code>> \o watchOp.before

\* a code was added to a list that held it, behind another code, and the
\* list is as it was
C25_Witness ==
    /\ watchOp.op = "add"
    /\ Len(watchOp.before) >= 2
    /\ watchOp.before[2] = watchOp.code
    /\ GetWatchlist(watchlist) = watchOp.before

\* a code was added at the front of a list that did not hold it
C25_WitnessInserted ==
    /\ watchOp.op = "add"
    /\ Len(watchOp.before) >= 2
    /\ Occurrences(watchOp.before, watchOp.code) = 0
    /\ GetWatchlist(watchlist)[1] = watchOp.code

====
